---- MODULE Spec2Model ----
(***************************************************************************)
(* A model of librobot: a warehouse grid shared by robots, each robot with *)
(* a FIFO task queue drained by one worker goroutine.                      *)
(*                                                                         *)
(* Identifiers.  Robot ids and task ids are uuid strings in the source;    *)
(* the model draws them from 1..n in order of creation, and 0 (Empty)      *)
(* stands for the empty string of a vacant grid cell.                      *)
(*                                                                         *)
(* Atomicity.  executeCommand runs under the warehouse lock and the robot  *)
(* mutex, CancelTask and CurrentState under the robot mutex, AddRobot      *)
(* under the warehouse lock: each is one action.  The worker's steps       *)
(* between two such critical sections are separate actions.  A critical    *)
(* section spans several actions only where it blocks inside: EnqueueTask  *)
(* sends to the task queue with the robot mutex held, and executeCommand   *)
(* waits for the robot mutex with the warehouse lock held.                 *)
(***************************************************************************)
EXTENDS Integers, Sequences, FiniteSets, TLC

\* librobot.go: the dimension of the square grid.
GridSize == 10

\* Go's uint is 32 or 64 bits wide; TLC's integers stop at 2^31-1, so the
\* model keeps the wrap-around of uint arithmetic at a width of 30 bits.
\* All the code does with a wrapped value is compare it with GridSize-1.
UintMod == 1073741824

\* Bounds of the model: the robots admitted and the tasks submitted in a run
\* of Spec, and the tasks submitted in a run of SpecQueue.
MaxRobots == 2
MaxTasks == 2

\* Robots admitted in a run of the crate warehouse.
MaxCrateRobots == 1

\* Length of the command strings that are all tried.
MaxProgramLen == 4
MaxQueueTasks == 4

\* The capacity of a robot's taskQueue channel.  The deployed capacity (100)
\* is scaled down so that a full queue is within reach of MaxQueueTasks.
TaskQueueCap == 2

Empty == 0
Nil == "nil"

ErrOutOfBounds == "ErrOutOfBounds"
ErrPositionOccupied == "ErrPositionOccupied"
ErrInvalidWarehouseType == "ErrInvalidWarehouseType"
ErrCrateNotFound == "ErrCrateNotFound"
ErrCrateExists == "ErrCrateExists"
ErrRobotHasCrate == "ErrRobotHasCrate"
ErrTaskNotFound == "task not found"
ErrRobotNotCrate == "ErrRobotNotCrate"
ErrUnknownCommand == "unknown command"
ErrTaskCancelled == "task cancelled"

\* The runes the rewriter emits for a fused pair.
MoveNorthEast == "NE"
MoveNorthWest == "NW"
MoveSouthEast == "SE"
MoveSouthWest == "SW"

VARIABLES
    gridyx,     \* warehouseImpl.gridyx: [y][x] -> robot id or Empty
    cratesyx,   \* warehouseImpl.cratesyx: the cells <<y, x>> whose flag is true
    robots,     \* warehouseImpl.robots: id -> robotImpl
    worker,     \* id -> the locals of that robot's startWorker goroutine
    tasks,      \* task id -> robotTask, with what its observers received
    wmu,        \* warehouseImpl.mu: Empty, or the robot whose worker holds the
                \* lock while it waits for its robot's mutex
    obs         \* what the callers and observers of the API have seen: the
                \* value the last call returned, the positions received,
                \* and where the worker was when a task was cancelled

vars == <<gridyx, cratesyx, robots, worker, tasks, wmu, obs>>

Index == 0..GridSize

\* uint arithmetic
Inc(v) == (v + 1) % UintMod

\* A decrement that stops at zero.
Dec_saturating(v) == IF v = 0 THEN 0 ELSE v - 1

Dec(v) == (v + UintMod - 1) % UintMod

(***************************************************************************)
(* Command parsing and the diagonal rewriter                               *)
(***************************************************************************)

\* parseCommands: the runes of the string in order, without the spaces.
parseCommands(commands) == SelectSeq(commands, LAMBDA c : c # " ")

isCardinal(c) == c \in {"N", "S", "E", "W"}

isOrthogonal(r1, r2) ==
    LET isVertical == r1 \in {"N", "S"}
        isHorizontal == r2 \in {"E", "W"}
    IN  isVertical = isHorizontal

\* A switch that pairs north with the wrong side: N and E give north-west,
\* N and W north-east.
fuse_mirrored(lastCmd, cmd) ==
    CASE (lastCmd = "N" /\ cmd = "E") \/ (lastCmd = "E" /\ cmd = "N") -> MoveNorthWest
      [] (lastCmd = "N" /\ cmd = "W") \/ (lastCmd = "W" /\ cmd = "N") -> MoveNorthEast
      [] (lastCmd = "S" /\ cmd = "E") \/ (lastCmd = "E" /\ cmd = "S") -> MoveSouthEast
      [] (lastCmd = "S" /\ cmd = "W") \/ (lastCmd = "W" /\ cmd = "S") -> MoveSouthWest

\* The switch of processCommands on a cardinal, orthogonal pair.
fuse(lastCmd, cmd) ==
    CASE (lastCmd = "N" /\ cmd = "E") \/ (lastCmd = "E" /\ cmd = "N") -> MoveNorthEast
      [] (lastCmd = "N" /\ cmd = "W") \/ (lastCmd = "W" /\ cmd = "N") -> MoveNorthWest
      [] (lastCmd = "S" /\ cmd = "E") \/ (lastCmd = "E" /\ cmd = "S") -> MoveSouthEast
      [] (lastCmd = "S" /\ cmd = "W") \/ (lastCmd = "W" /\ cmd = "S") -> MoveSouthWest

\* The zero rune: no command is held.
NoRune == ""

\* A loop that lets a command other than a move pass while a move is held:
\* the held move stays held and is paired with the move that follows.
RECURSIVE processFrom_keepsHeld(_, _, _, _)
processFrom_keepsHeld(commands, k, lastCmd, processedCmds) ==
    IF k > Len(commands)
    THEN IF lastCmd # NoRune THEN Append(processedCmds, lastCmd) ELSE processedCmds
    ELSE LET cmd == commands[k] IN
         IF lastCmd # NoRune /\ isCardinal(lastCmd) /\ isCardinal(cmd)
                /\ isOrthogonal(lastCmd, cmd)
         THEN processFrom_keepsHeld(commands, k + 1, NoRune,
                                    Append(processedCmds, fuse(lastCmd, cmd)))
         ELSE IF lastCmd # NoRune /\ ~isCardinal(cmd)
         THEN processFrom_keepsHeld(commands, k + 1, lastCmd,
                                    Append(processedCmds, cmd))
         ELSE processFrom_keepsHeld(commands, k + 1, cmd,
                          IF lastCmd # NoRune THEN Append(processedCmds, lastCmd)
                          ELSE processedCmds)

\* The loop of processCommands from position k on; lastCmd is the held
\* rune, NoRune when none is held.
RECURSIVE processFrom(_, _, _, _)
processFrom(commands, k, lastCmd, processedCmds) ==
    IF k > Len(commands)
    THEN IF lastCmd # NoRune THEN Append(processedCmds, lastCmd) ELSE processedCmds
    ELSE LET cmd == commands[k] IN
         IF lastCmd # NoRune /\ isCardinal(lastCmd) /\ isCardinal(cmd)
                /\ isOrthogonal(lastCmd, cmd)
         THEN processFrom(commands, k + 1, NoRune,
                          Append(processedCmds, fuse(lastCmd, cmd)))
         ELSE processFrom(commands, k + 1, cmd,
                          IF lastCmd # NoRune THEN Append(processedCmds, lastCmd)
                          ELSE processedCmds)

processCommands(commands) == processFrom(commands, 1, NoRune, <<>>)

(***************************************************************************)
(* The robot state machine                                                 *)
(***************************************************************************)

\* A grabCrate that leaves the crate flag of the cell set.
grabCrate_keepsFlag(st, crates) ==
    IF st.HasCrate THEN [err |-> ErrRobotHasCrate, state |-> st, crates |-> crates]
    ELSE IF <<st.Y, st.X>> \notin crates
    THEN [err |-> ErrCrateNotFound, state |-> st, crates |-> crates]
    ELSE [err |-> Nil, state |-> [st EXCEPT !.HasCrate = TRUE], crates |-> crates]

\* A grabCrate that looks for the crate before it looks at the robot.
grabCrate_crateFirst(st, crates) ==
    IF <<st.Y, st.X>> \notin crates
    THEN [err |-> ErrCrateNotFound, state |-> st, crates |-> crates]
    ELSE IF st.HasCrate
    THEN [err |-> ErrRobotHasCrate, state |-> st, crates |-> crates]
    ELSE [err |-> Nil, state |-> [st EXCEPT !.HasCrate = TRUE],
          crates |-> crates \ {<<st.Y, st.X>>}]

\* grabCrate and dropCrate, on the state st of a robot and the crate flags.
grabCrate(st, crates) ==
    IF st.HasCrate THEN [err |-> ErrRobotHasCrate, state |-> st, crates |-> crates]
    ELSE IF <<st.Y, st.X>> \notin crates
    THEN [err |-> ErrCrateNotFound, state |-> st, crates |-> crates]
    ELSE [err |-> Nil, state |-> [st EXCEPT !.HasCrate = TRUE],
          crates |-> crates \ {<<st.Y, st.X>>}]

\* A dropCrate that does not look at the cell before it puts the crate down.
dropCrate_noCellCheck(st, crates) ==
    IF ~st.HasCrate THEN [err |-> ErrRobotNotCrate, state |-> st, crates |-> crates]
    ELSE [err |-> Nil, state |-> [st EXCEPT !.HasCrate = FALSE],
          crates |-> crates \cup {<<st.Y, st.X>>}]

dropCrate(st, crates) ==
    IF ~st.HasCrate THEN [err |-> ErrRobotNotCrate, state |-> st, crates |-> crates]
    ELSE IF <<st.Y, st.X>> \in crates
    THEN [err |-> ErrCrateExists, state |-> st, crates |-> crates]
    ELSE [err |-> Nil, state |-> [st EXCEPT !.HasCrate = FALSE],
          crates |-> crates \cup {<<st.Y, st.X>>}]

\* The switch of executeCommand: the target cell, and for G and D the crate
\* transfer.  err is an early return of the switch.
commandSwitch(r, cmd, crates) ==
    LET st == r.state
        to(nx, ny) == [err |-> Nil, newX |-> nx, newY |-> ny,
                       state |-> st, crates |-> crates]
        fail(e) == [err |-> e, newX |-> st.X, newY |-> st.Y,
                    state |-> st, crates |-> crates]
        crateOp(res) == IF res.err # Nil THEN fail(res.err)
                        ELSE [err |-> Nil, newX |-> st.X, newY |-> st.Y,
                              state |-> res.state, crates |-> res.crates]
    IN  CASE cmd = "N" -> to(st.X, Inc(st.Y))
          [] cmd = "S" -> to(st.X, Dec(st.Y))
          [] cmd = "E" -> to(Inc(st.X), st.Y)
          [] cmd = "W" -> to(Dec(st.X), st.Y)
          [] cmd = "G" -> IF ~r.canPickCrates THEN fail(ErrInvalidWarehouseType)
                          ELSE crateOp(grabCrate(st, crates))
          [] cmd = "D" -> IF ~r.canPickCrates THEN fail(ErrInvalidWarehouseType)
                          ELSE crateOp(dropCrate(st, crates))
          [] cmd = MoveNorthEast -> to(Inc(st.X), Inc(st.Y))
          [] cmd = MoveNorthWest -> to(Dec(st.X), Inc(st.Y))
          [] cmd = MoveSouthEast -> to(Inc(st.X), Dec(st.Y))
          [] cmd = MoveSouthWest -> to(Dec(st.X), Dec(st.Y))
          [] OTHER -> fail(ErrUnknownCommand)

\* A boundary check that lets a move reach the row or column GridSize.
outOfBounds_offByOne(newX, newY) ==
    newX > GridSize \/ newY > GridSize \/ newX < 0 \/ newY < 0

\* The boundary check of executeCommand (newX < 0 is never true of a uint).
outOfBounds(newX, newY) ==
    newX > (GridSize - 1) \/ newY > (GridSize - 1) \/ newX < 0 \/ newY < 0

\* A collision check that finds every cell free.
occupied_never(grid, id, newX, newY) == FALSE

\* The collision check of executeCommand.
occupied(grid, id, newX, newY) ==
    grid[newY][newX] # Empty /\ grid[newY][newX] # id

\* executeCommand that occupies the new cell and leaves the old one marked.
executeCommand_noVacate(r, cmd, grid, crates) ==
    LET sw == commandSwitch(r, cmd, crates) IN
    IF sw.err # Nil
    THEN [err |-> sw.err, state |-> r.state, grid |-> grid, crates |-> crates]
    ELSE IF outOfBounds(sw.newX, sw.newY)
    THEN [err |-> ErrOutOfBounds, state |-> sw.state, grid |-> grid,
          crates |-> sw.crates]
    ELSE IF occupied(grid, r.id, sw.newX, sw.newY)
    THEN [err |-> ErrPositionOccupied, state |-> sw.state, grid |-> grid,
          crates |-> sw.crates]
    ELSE [err |-> Nil,
          state |-> [sw.state EXCEPT !.X = sw.newX, !.Y = sw.newY],
          grid |-> [grid EXCEPT ![sw.newY][sw.newX] = r.id],
          crates |-> sw.crates]

\* executeCommand that finds the collision after it has moved the robot.
executeCommand_lateCollision(r, cmd, grid, crates) ==
    LET sw == commandSwitch(r, cmd, crates) IN
    IF sw.err # Nil
    THEN [err |-> sw.err, state |-> r.state, grid |-> grid, crates |-> crates]
    ELSE IF outOfBounds(sw.newX, sw.newY)
    THEN [err |-> ErrOutOfBounds, state |-> sw.state, grid |-> grid,
          crates |-> sw.crates]
    ELSE [err |-> IF occupied(grid, r.id, sw.newX, sw.newY)
                  THEN ErrPositionOccupied ELSE Nil,
          state |-> [sw.state EXCEPT !.X = sw.newX, !.Y = sw.newY],
          grid |-> [[grid EXCEPT ![r.state.Y][r.state.X] = Empty]
                          EXCEPT ![sw.newY][sw.newX] = r.id],
          crates |-> sw.crates]

\* executeCommand of robot r on command cmd, from the grid and crate flags
\* given: the error returned and what the call leaves behind.
\* An executeCommand that writes r.state.X and r.state.Y before it looks at
\* the target cell.
executeCommand_earlyState(r, cmd, grid, crates) ==
    LET sw == commandSwitch(r, cmd, crates) IN
    IF sw.err # Nil
    THEN [err |-> sw.err, state |-> r.state, grid |-> grid, crates |-> crates]
    ELSE IF outOfBounds(sw.newX, sw.newY)
    THEN [err |-> ErrOutOfBounds, state |-> sw.state, grid |-> grid,
          crates |-> sw.crates]
    ELSE IF occupied(grid, r.id, sw.newX, sw.newY)
    THEN [err |-> ErrPositionOccupied,
          state |-> [sw.state EXCEPT !.X = sw.newX, !.Y = sw.newY],
          grid |-> grid, crates |-> sw.crates]
    ELSE [err |-> Nil,
          state |-> [sw.state EXCEPT !.X = sw.newX, !.Y = sw.newY],
          grid |-> [[grid EXCEPT ![r.state.Y][r.state.X] = Empty]
                          EXCEPT ![sw.newY][sw.newX] = r.id],
          crates |-> sw.crates]

\* An executeCommand that vacates the whole row the robot leaves.
executeCommand_clearsRow(r, cmd, grid, crates) ==
    LET sw == commandSwitch(r, cmd, crates) IN
    IF sw.err # Nil
    THEN [err |-> sw.err, state |-> r.state, grid |-> grid, crates |-> crates]
    ELSE IF outOfBounds(sw.newX, sw.newY)
    THEN [err |-> ErrOutOfBounds, state |-> sw.state, grid |-> grid,
          crates |-> sw.crates]
    ELSE IF occupied(grid, r.id, sw.newX, sw.newY)
    THEN [err |-> ErrPositionOccupied, state |-> sw.state, grid |-> grid,
          crates |-> sw.crates]
    ELSE [err |-> Nil,
          state |-> [sw.state EXCEPT !.X = sw.newX, !.Y = sw.newY],
          grid |-> [[grid EXCEPT ![r.state.Y] = [x \in Index |-> Empty]]
                          EXCEPT ![sw.newY][sw.newX] = r.id],
          crates |-> sw.crates]

\* An executeCommand that moves the robot on the grid and leaves r.state.X
\* and r.state.Y as they were.
executeCommand_staleState(r, cmd, grid, crates) ==
    LET sw == commandSwitch(r, cmd, crates) IN
    IF sw.err # Nil
    THEN [err |-> sw.err, state |-> r.state, grid |-> grid, crates |-> crates]
    ELSE IF outOfBounds(sw.newX, sw.newY)
    THEN [err |-> ErrOutOfBounds, state |-> sw.state, grid |-> grid,
          crates |-> sw.crates]
    ELSE IF occupied(grid, r.id, sw.newX, sw.newY)
    THEN [err |-> ErrPositionOccupied, state |-> sw.state, grid |-> grid,
          crates |-> sw.crates]
    ELSE [err |-> Nil,
          state |-> sw.state,
          grid |-> [[grid EXCEPT ![r.state.Y][r.state.X] = Empty]
                          EXCEPT ![sw.newY][sw.newX] = r.id],
          crates |-> sw.crates]

executeCommand(r, cmd, grid, crates) ==
    LET sw == commandSwitch(r, cmd, crates) IN
    IF sw.err # Nil
    THEN [err |-> sw.err, state |-> r.state, grid |-> grid, crates |-> crates]
    ELSE IF outOfBounds(sw.newX, sw.newY)
    THEN [err |-> ErrOutOfBounds, state |-> sw.state, grid |-> grid,
          crates |-> sw.crates]
    ELSE IF occupied(grid, r.id, sw.newX, sw.newY)
    THEN [err |-> ErrPositionOccupied, state |-> sw.state, grid |-> grid,
          crates |-> sw.crates]
    ELSE [err |-> Nil,
          state |-> [sw.state EXCEPT !.X = sw.newX, !.Y = sw.newY],
          grid |-> [[grid EXCEPT ![r.state.Y][r.state.X] = Empty]
                          EXCEPT ![sw.newY][sw.newX] = r.id],
          crates |-> sw.crates]

(***************************************************************************)
(* Inputs                                                                  *)
(***************************************************************************)

\* The cells <<x, y>> robots are admitted at: the south-west corner and its
\* eastern neighbour, the north-east corner of the 10x10 grid, the cell east
\* of it on the array's last column, and a cell outside the array.
AdmitCells ==
    { <<0, 0>>, <<1, 0>>, <<GridSize - 1, GridSize - 1>>,
      <<GridSize, GridSize - 1>>, <<GridSize + 1, GridSize + 1>> }

\* The command strings clients submit, one rune per element.
Programs ==
    { <<"E", " ", "N">>, <<"W", "S">>, <<"N", "X">> }

(***************************************************************************)
(* Admission                                                               *)
(***************************************************************************)

\* The idle locals of a worker goroutine waiting in its select.  While a
\* task runs, start is the robot's state when the task was received.
idleWorker ==
    [pc |-> "idle", task |-> Empty, commands |-> <<>>, i |-> 0, err |-> Nil,
     start |-> <<>>]

\* The robotImpl a warehouse builds for a new robot: its task queue, its
\* cancellation map and its capability flags.  sending is the task a
\* producer is blocked sending to the full queue, with the robot mutex
\* held; the mutex is free when no producer is.
newRobot(robotID, initialX, initialY, diagonal, crateWarehouse) ==
    [id |-> robotID,
     state |-> [X |-> initialX, Y |-> initialY, HasCrate |-> FALSE],
     canPickCrates |-> crateWarehouse,
     isDiagonal |-> diagonal,
     taskQueue |-> <<>>,
     cancelChannels |-> {},
     sending |-> Empty,
     stopWorker |-> FALSE]

\* r.mu is held.
muLocked(r) == r.sending # Empty

\* uuid.New(): an id no robot of the warehouse has, the least one free.
newRobotID ==
    CHOOSE i \in 1..(Cardinality(DOMAIN robots) + 1) :
        /\ i \notin DOMAIN robots
        /\ \A j \in 1..(i - 1) : j \in DOMAIN robots

\* The errors AddRobot makes with errors.New.
errAdmitOutOfBounds == "error: initial X and Y are out of bounds"
errAdmitOccupied == "error: a robot exists at this positin"

\* The coordinates AddRobot refuses.
admitOutOfBounds(initialX, initialY) == initialX > GridSize \/ initialY > GridSize

\* AddRobot under the warehouse lock: the error, and the id of the robot
\* created.
addRobot(initialX, initialY) ==
    IF admitOutOfBounds(initialX, initialY) THEN [err |-> errAdmitOutOfBounds]
    ELSE IF gridyx[initialY][initialX] # Empty THEN [err |-> errAdmitOccupied]
    ELSE [err |-> Nil, robotID |-> newRobotID]

\* Registration of the robot built by a successful admission, and the start
\* of its worker.
register(robot) ==
    /\ robots' = [id \in DOMAIN robots \cup {robot.id} |->
                    IF id = robot.id THEN robot ELSE robots[id]]
    /\ gridyx' = [gridyx EXCEPT ![robot.state.Y][robot.state.X] = robot.id]
    /\ worker' = [id \in DOMAIN worker \cup {robot.id} |->
                    IF id = robot.id THEN idleWorker ELSE worker[id]]

AddRobot(initialX, initialY) ==
    /\ wmu = Empty
    /\ Cardinality(DOMAIN robots) < MaxRobots
    /\ LET res == addRobot(initialX, initialY) IN
       /\ res.err = Nil
       /\ register(newRobot(res.robotID, initialX, initialY, FALSE, FALSE))
    /\ UNCHANGED <<cratesyx, tasks, wmu>>

\* AddDiagonalRobot: admission of a diagonal-capable robot, with the grid
\* bound [0, GridSize) on both axes.
addDiagonalRobot(initialX, initialY) ==
    IF initialX >= GridSize \/ initialY >= GridSize THEN [err |-> ErrOutOfBounds]
    ELSE IF gridyx[initialY][initialX] # Empty THEN [err |-> ErrPositionOccupied]
    ELSE [err |-> Nil, robotID |-> newRobotID]

AddDiagonalRobot(initialX, initialY) ==
    /\ wmu = Empty
    /\ Cardinality(DOMAIN robots) < MaxRobots
    /\ LET res == addDiagonalRobot(initialX, initialY) IN
       /\ res.err = Nil
       /\ register(newRobot(res.robotID, initialX, initialY, TRUE, FALSE))
    /\ UNCHANGED <<cratesyx, tasks, wmu>>

\* The error of an admission whose id hint is taken.
ErrDuplicateID == "robot id already in use"

\* An admission with id hint that does not look the hint up.
addRobotHint_noLookup(initialX, initialY, idHint) ==
    IF initialX >= GridSize \/ initialY >= GridSize THEN [err |-> ErrOutOfBounds]
    ELSE IF gridyx[initialY][initialX] # Empty THEN [err |-> ErrPositionOccupied]
    ELSE [err |-> Nil, robotID |-> IF idHint = Empty THEN newRobotID ELSE idHint]

\* AddRobot with an id hint: the hint is the robot's id unless it is empty,
\* and an id in use is refused; the grid bound is [0, GridSize).
addRobotHint(initialX, initialY, idHint) ==
    IF idHint # Empty /\ idHint \in DOMAIN robots THEN [err |-> ErrDuplicateID]
    ELSE IF initialX >= GridSize \/ initialY >= GridSize THEN [err |-> ErrOutOfBounds]
    ELSE IF gridyx[initialY][initialX] # Empty THEN [err |-> ErrPositionOccupied]
    ELSE [err |-> Nil, robotID |-> IF idHint = Empty THEN newRobotID ELSE idHint]

AddRobotHint(initialX, initialY, idHint) ==
    /\ wmu = Empty
    /\ Cardinality(DOMAIN robots) < MaxRobots
    /\ LET res == addRobotHint(initialX, initialY, idHint) IN
       /\ res.err = Nil
       /\ register(newRobot(res.robotID, initialX, initialY, FALSE, FALSE))
    /\ UNCHANGED <<cratesyx, tasks, wmu>>

(***************************************************************************)
(* Tasks                                                                   *)
(***************************************************************************)

\* uuid.New(): an id no task has.
newTaskID == Cardinality(DOMAIN tasks) + 1

\* The robotTask EnqueueTask builds.  positionCh is unbuffered and errorCh
\* has a buffer of one; each channel carries the number of times it was
\* closed.  errRecv is what an observer has received from errorCh, and
\* executed counts the commands handed to executeCommand.
newTask(taskID, robotID, commands) ==
    [id |-> taskID, robot |-> robotID, commands |-> commands,
     posClosed |-> 0, errorCh |-> <<>>, errClosed |-> 0, cancelClosed |-> 0,
     sentOnClosed |-> FALSE,
     errRecv |-> <<>>, executed |-> 0]

\* EnqueueTask: with the robot mutex held, the cancel channel is registered
\* and the task is sent to the queue.  When the queue is full the send
\* blocks, and the mutex stays held until the send goes through.
EnqueueTask(id, commands) ==
    /\ id \in DOMAIN robots
    /\ ~muLocked(robots[id])
    /\ LET taskID == newTaskID IN
       /\ tasks' = [t \in DOMAIN tasks \cup {taskID} |->
                      IF t = taskID THEN newTask(taskID, id, commands) ELSE tasks[t]]
       /\ robots' = [robots EXCEPT ![id] =
             IF Len(@.taskQueue) < TaskQueueCap
             THEN [@ EXCEPT !.cancelChannels = @ \cup {taskID},
                            !.taskQueue = Append(@, taskID)]
             ELSE [@ EXCEPT !.cancelChannels = @ \cup {taskID},
                            !.sending = taskID]]
    /\ UNCHANGED <<gridyx, cratesyx, worker, wmu>>

\* The blocked send of EnqueueTask goes through once the queue has room;
\* the robot mutex is released.
EnqueueSend(id) ==
    /\ id \in DOMAIN robots
    /\ muLocked(robots[id])
    /\ Len(robots[id].taskQueue) < TaskQueueCap
    /\ robots' = [robots EXCEPT ![id].taskQueue = Append(@, robots[id].sending),
                                ![id].sending = Empty]
    /\ UNCHANGED <<gridyx, cratesyx, worker, tasks, wmu>>

\* The error CancelTask makes with errors.New for an id not in the map.
errCancelNotFound == "error: Could not cancel task: task not found"

\* A CancelTask that leaves the channel it finds open.
closeCancel_noop(task) == task

\* What CancelTask does to the cancel channel of a task found in the map:
\* closed unless it is closed already.
closeCancel(task) ==
    IF task.cancelClosed > 0 THEN task
    ELSE [task EXCEPT !.cancelClosed = @ + 1]

\* CancelTask that closes the channel it finds and leaves it in the map.
cancelTask_naive(r, taskID, tsk) ==
    IF taskID \notin r.cancelChannels
    THEN [err |-> errCancelNotFound, cancelChannels |-> r.cancelChannels, tasks |-> tsk]
    ELSE [err |-> Nil,
          cancelChannels |-> r.cancelChannels,
          tasks |-> [tsk EXCEPT ![taskID].cancelClosed = @ + 1]]

\* CancelTask, under the robot mutex: the error returned, the cancellation
\* map and the tasks it leaves.
cancelTask(r, taskID, tsk) ==
    IF taskID \notin r.cancelChannels
    THEN [err |-> errCancelNotFound, cancelChannels |-> r.cancelChannels, tasks |-> tsk]
    ELSE [err |-> Nil,
          cancelChannels |-> r.cancelChannels \ {taskID},
          tasks |-> [tsk EXCEPT ![taskID] = closeCancel(@)]]

CancelTask(id, taskID) ==
    /\ id \in DOMAIN robots
    /\ ~muLocked(robots[id])
    /\ LET res == cancelTask(robots[id], taskID, tasks) IN
       /\ res.err = Nil
       /\ robots' = [robots EXCEPT ![id].cancelChannels = res.cancelChannels]
       /\ tasks' = res.tasks
    /\ UNCHANGED <<gridyx, cratesyx, worker, wmu>>

(***************************************************************************)
(* The worker: startWorker and executeTask                                 *)
(***************************************************************************)

\* A receive that takes the task sent last.
nextTask_newest(queue) == queue[Len(queue)]

\* The task the worker's select receives from the queue.
nextTask(queue) == Head(queue)

\* startWorker receives a task; executeTask parses its commands, and
\* rewrites them for a diagonal robot.
Dequeue(id) ==
    /\ id \in DOMAIN robots
    /\ worker[id].pc = "idle"
    /\ robots[id].taskQueue # <<>>
    /\ LET taskID == nextTask(robots[id].taskQueue)
           parsed == parseCommands(tasks[taskID].commands)
           commands == IF robots[id].isDiagonal THEN processCommands(parsed)
                       ELSE parsed
       IN  /\ worker' = [worker EXCEPT ![id] =
                 [pc |-> "loop", task |-> taskID, commands |-> commands,
                  i |-> 1, err |-> Nil, start |-> robots[id].state]]
           /\ robots' = [robots EXCEPT ![id].taskQueue =
                 SelectSeq(@, LAMBDA t : t # taskID)]
    /\ UNCHANGED <<gridyx, cratesyx, tasks, wmu>>

\* A non-blocking send on an errorCh without buffer, nobody receiving.
sendError_unbuffered(task, err) ==
    IF task.errClosed > 0 THEN [task EXCEPT !.sentOnClosed = TRUE] ELSE task

\* A non-blocking send of err on the task's errorCh (buffer of one).
sendError(task, err) ==
    IF task.errClosed > 0 THEN [task EXCEPT !.sentOnClosed = TRUE]
    ELSE IF Len(task.errorCh) < 1 THEN [task EXCEPT !.errorCh = Append(@, err)]
    ELSE task

\* A command loop that does not look at the cancel channel.
LoopHead_noCancelCheck(id) ==
    /\ id \in DOMAIN robots
    /\ worker[id].pc = "loop"
    /\ worker' = [worker EXCEPT ![id].pc =
          IF worker[id].i > Len(worker[id].commands) THEN "closeErr" ELSE "exec"]
    /\ UNCHANGED <<gridyx, cratesyx, robots, wmu, tasks>>

\* The head of the command loop: the loop ends after the last command;
\* otherwise the select on the cancel channel aborts a cancelled task with
\* the cancellation error.
LoopHead(id) ==
    /\ id \in DOMAIN robots
    /\ worker[id].pc = "loop"
    /\ LET w == worker[id] IN
       IF w.i > Len(w.commands)
       THEN /\ worker' = [worker EXCEPT ![id].pc = "closeErr"]
            /\ UNCHANGED tasks
       ELSE IF tasks[w.task].cancelClosed > 0
       THEN /\ worker' = [worker EXCEPT ![id].pc = "closeErr",
                                        ![id].err = ErrTaskCancelled]
            /\ tasks' = [tasks EXCEPT ![w.task] = sendError(@, ErrTaskCancelled)]
       ELSE /\ worker' = [worker EXCEPT ![id].pc = "exec"]
            /\ UNCHANGED tasks
    /\ UNCHANGED <<gridyx, cratesyx, robots, wmu>>

\* executeCommand takes the warehouse lock and then finds the robot mutex
\* held: it waits with the warehouse lock held.
LockWarehouse(id) ==
    /\ id \in DOMAIN robots
    /\ worker[id].pc = "exec"
    /\ wmu = Empty
    /\ muLocked(robots[id])
    /\ wmu' = id
    /\ UNCHANGED <<gridyx, cratesyx, robots, worker, tasks>>

\* A command loop that reports a command's error and goes on to the next
\* command.
Execute_noAbort(id) ==
    /\ id \in DOMAIN robots
    /\ worker[id].pc = "exec"
    /\ wmu \in {Empty, id}
    /\ ~muLocked(robots[id])
    /\ LET w == worker[id]
           res == executeCommand(robots[id], w.commands[w.i], gridyx, cratesyx)
       IN  /\ gridyx' = res.grid
           /\ cratesyx' = res.crates
           /\ robots' = [robots EXCEPT ![id].state = res.state]
           /\ worker' = [worker EXCEPT ![id].err = res.err, ![id].pc = "publish"]
           /\ tasks' = [tasks EXCEPT ![w.task] =
                 LET t == [@ EXCEPT !.executed = @ + 1] IN
                 IF res.err # Nil THEN sendError(t, res.err) ELSE t]
    /\ wmu' = Empty

\* executeCommand on the current command, under the warehouse lock and the
\* robot mutex; an error is sent on errorCh and aborts the task.
Execute(id) ==
    /\ id \in DOMAIN robots
    /\ worker[id].pc = "exec"
    /\ wmu \in {Empty, id}
    /\ ~muLocked(robots[id])
    /\ LET w == worker[id]
           res == executeCommand(robots[id], w.commands[w.i], gridyx, cratesyx)
       IN  /\ gridyx' = res.grid
           /\ cratesyx' = res.crates
           /\ robots' = [robots EXCEPT ![id].state = res.state]
           /\ worker' = [worker EXCEPT
                 ![id].err = res.err,
                 ![id].pc = IF res.err # Nil THEN "closeErr" ELSE "publish"]
           /\ tasks' = [tasks EXCEPT ![w.task] =
                 LET t == [@ EXCEPT !.executed = @ + 1] IN
                 IF res.err # Nil THEN sendError(t, res.err) ELSE t]
    /\ wmu' = Empty

\* The non-blocking send of CurrentState() on positionCh, then the sleep of
\* one tick.  CurrentState takes the robot mutex.  The value is taken by an
\* observer that is ready or dropped; neither leaves a trace in the robot
\* or the task.
Publish(id) ==
    /\ id \in DOMAIN robots
    /\ worker[id].pc = "publish"
    /\ ~muLocked(robots[id])
    /\ LET w == worker[id] IN
       /\ tasks' = [tasks EXCEPT ![w.task] =
             IF @.posClosed > 0 THEN [@ EXCEPT !.sentOnClosed = TRUE] ELSE @]
       /\ worker' = [worker EXCEPT ![id].pc = "loop", ![id].i = @ + 1]
    /\ UNCHANGED <<gridyx, cratesyx, robots, wmu>>

\* Deferred calls in the other order: positionCh is closed where errorCh
\* should be.
CloseErrorCh_positionFirst(id) ==
    /\ id \in DOMAIN robots
    /\ worker[id].pc = "closeErr"
    /\ tasks' = [tasks EXCEPT ![worker[id].task].posClosed = @ + 1]
    /\ worker' = [worker EXCEPT ![id].pc = "closePos"]
    /\ UNCHANGED <<gridyx, cratesyx, robots, wmu>>

\* The deferred calls of executeTask run last-in first-out: errorCh is
\* closed first, positionCh second.
CloseErrorCh(id) ==
    /\ id \in DOMAIN robots
    /\ worker[id].pc = "closeErr"
    /\ tasks' = [tasks EXCEPT ![worker[id].task].errClosed = @ + 1]
    /\ worker' = [worker EXCEPT ![id].pc = "closePos"]
    /\ UNCHANGED <<gridyx, cratesyx, robots, wmu>>

\* An executeTask that returns without closing positionCh.
ClosePositionCh_skip(id) ==
    /\ id \in DOMAIN robots
    /\ worker[id].pc = "closePos"
    /\ worker' = [worker EXCEPT ![id].pc = "cleanup"]
    /\ UNCHANGED <<gridyx, cratesyx, robots, wmu, tasks>>

ClosePositionCh(id) ==
    /\ id \in DOMAIN robots
    /\ worker[id].pc = "closePos"
    /\ tasks' = [tasks EXCEPT ![worker[id].task].posClosed = @ + 1]
    /\ worker' = [worker EXCEPT ![id].pc = "cleanup"]
    /\ UNCHANGED <<gridyx, cratesyx, robots, wmu>>

\* startWorker, with the robot mutex held, removes the finished task's
\* cancel channel from the map and returns to its select.
Cleanup(id) ==
    /\ id \in DOMAIN robots
    /\ worker[id].pc = "cleanup"
    /\ ~muLocked(robots[id])
    /\ robots' = [robots EXCEPT ![id].cancelChannels = @ \ {worker[id].task}]
    /\ worker' = [worker EXCEPT ![id] = idleWorker]
    /\ UNCHANGED <<gridyx, cratesyx, tasks, wmu>>

\* An observer receives the value buffered on a task's errorCh.
RecvError(taskID) ==
    /\ taskID \in DOMAIN tasks
    /\ tasks[taskID].errorCh # <<>>
    /\ tasks' = [tasks EXCEPT ![taskID].errRecv = Append(@, Head(tasks[taskID].errorCh)),
                              ![taskID].errorCh = Tail(@)]
    /\ UNCHANGED <<gridyx, cratesyx, robots, worker, wmu>>

(***************************************************************************)
(* The specifications                                                      *)
(***************************************************************************)

\* What a caller keeps of a call: the operation, its arguments, the error
\* returned and the handle or id returned with it.
returned(op, args, err, val) == [op |-> op, args |-> args, err |-> err, val |-> val]

\* Nothing called, nothing received.
noObs ==
    [ret |-> returned("none", <<>>, Nil, Empty), posRecv |-> <<>>, cancelAt |-> <<>>]

\* The variables of the warehouse, its robots and their tasks.
progVars == <<gridyx, cratesyx, robots, worker, tasks, wmu>>

\* NewWarehouse(): no robot, every cell vacant, no crate.
Init ==
    /\ gridyx = [y \in Index |-> [x \in Index |-> Empty]]
    /\ cratesyx = {}
    /\ robots = <<>>
    /\ worker = <<>>
    /\ tasks = <<>>
    /\ wmu = Empty
    /\ obs = noObs

\* The steps of robot id's worker goroutine.
WorkerStep(id) ==
    \/ Dequeue(id)
    \/ LoopHead(id)
    \/ LockWarehouse(id)
    \/ Execute(id)
    \/ Publish(id)
    \/ CloseErrorCh(id)
    \/ ClosePositionCh(id)
    \/ Cleanup(id)

\* The warehouse with up to MaxRobots robots and MaxTasks tasks, its
\* callers keeping no record: calls that fail change nothing and are left
\* out, and nobody receives from a positions channel.  No more than
\* TaskQueueCap tasks exist, so no send on a task queue blocks here; the
\* blocked send and the worker waiting behind it are steps of NextQueue.
Next ==
    \/ \E c \in AdmitCells : AddRobot(c[1], c[2]) /\ UNCHANGED obs
    \/ \E c \in AdmitCells : AddDiagonalRobot(c[1], c[2]) /\ UNCHANGED obs
    \/ \E id \in 1..MaxRobots, p \in Programs :
          /\ Cardinality(DOMAIN tasks) < MaxTasks
          /\ EnqueueTask(id, p)
          /\ UNCHANGED obs
    \/ \E id \in 1..MaxRobots, t \in 1..MaxTasks : CancelTask(id, t) /\ UNCHANGED obs
    \/ \E id \in 1..MaxRobots : Dequeue(id) /\ UNCHANGED obs
    \/ \E id \in 1..MaxRobots : LoopHead(id) /\ UNCHANGED obs
    \/ \E id \in 1..MaxRobots : Execute(id) /\ UNCHANGED obs
    \/ \E id \in 1..MaxRobots : Publish(id) /\ UNCHANGED obs
    \/ \E id \in 1..MaxRobots : CloseErrorCh(id) /\ UNCHANGED obs
    \/ \E id \in 1..MaxRobots : ClosePositionCh(id) /\ UNCHANGED obs
    \/ \E id \in 1..MaxRobots : Cleanup(id) /\ UNCHANGED obs
    \/ \E t \in 1..MaxTasks : RecvError(t) /\ UNCHANGED obs

Spec == Init /\ [][Next]_vars

\* The command strings submitted in a run of SpecQueue.
QueuePrograms == { <<"N", "X">>, <<"W", "S">> }

\* The steps of robot id's worker with nobody receiving its positions.
QuietWorkerStep(id) == WorkerStep(id) /\ UNCHANGED obs

\* The blocked send of robot id's producer going through.
QuietEnqueueSend(id) == EnqueueSend(id) /\ UNCHANGED obs

\* One robot, admitted at the origin, given up to MaxQueueTasks tasks: more
\* than its queue and its worker hold together.
NextQueue ==
    \/ AddRobot(0, 0) /\ UNCHANGED obs
    \/ \E p \in QueuePrograms :
          /\ Cardinality(DOMAIN tasks) < MaxQueueTasks
          /\ EnqueueTask(1, p)
          /\ UNCHANGED obs
    \/ QuietEnqueueSend(1)
    \/ \E t \in 1..MaxQueueTasks : CancelTask(1, t) /\ UNCHANGED obs
    \/ Dequeue(1) /\ UNCHANGED obs
    \/ LoopHead(1) /\ UNCHANGED obs
    \/ LockWarehouse(1) /\ UNCHANGED obs
    \/ Execute(1) /\ UNCHANGED obs
    \/ Publish(1) /\ UNCHANGED obs
    \/ CloseErrorCh(1) /\ UNCHANGED obs
    \/ ClosePositionCh(1) /\ UNCHANGED obs
    \/ Cleanup(1) /\ UNCHANGED obs
    \/ \E t \in 1..MaxQueueTasks : RecvError(t) /\ UNCHANGED obs

SpecQueue == Init /\ [][NextQueue]_vars

\* SpecQueue under fair scheduling: the worker goroutine keeps taking the
\* steps it can take, and a sender blocked on the queue proceeds once the
\* queue has room.
FairSpecQueue ==
    /\ SpecQueue
    /\ WF_vars(QuietWorkerStep(1))
    /\ WF_vars(QuietEnqueueSend(1))

\* The id hints of admissions: none, or an id.
IdHints == {Empty} \cup (1..MaxRobots)

\* A call of AddRobot as its caller sees it: a robot handle, or an error
\* and no handle.
CallAddRobot(initialX, initialY) ==
    LET res == addRobot(initialX, initialY)
        args == <<initialX, initialY>>
    IN  \/ /\ AddRobot(initialX, initialY)
           /\ obs' = [obs EXCEPT !.ret = returned("AddRobot", args, Nil, res.robotID)]
        \/ /\ res.err # Nil
           /\ obs' = [obs EXCEPT !.ret = returned("AddRobot", args, res.err, Empty)]
           /\ UNCHANGED progVars

CallAddDiagonalRobot(initialX, initialY) ==
    LET res == addDiagonalRobot(initialX, initialY)
        args == <<initialX, initialY>>
    IN  \/ /\ AddDiagonalRobot(initialX, initialY)
           /\ obs' = [obs EXCEPT !.ret =
                         returned("AddDiagonalRobot", args, Nil, res.robotID)]
        \/ /\ res.err # Nil
           /\ obs' = [obs EXCEPT !.ret =
                         returned("AddDiagonalRobot", args, res.err, Empty)]
           /\ UNCHANGED progVars

CallAddRobotHint(initialX, initialY, idHint) ==
    LET res == addRobotHint(initialX, initialY, idHint)
        args == <<initialX, initialY, idHint>>
    IN  \/ /\ AddRobotHint(initialX, initialY, idHint)
           /\ obs' = [obs EXCEPT !.ret = returned("AddRobotHint", args, Nil, res.robotID)]
        \/ /\ res.err # Nil
           /\ obs' = [obs EXCEPT !.ret = returned("AddRobotHint", args, res.err, Empty)]
           /\ UNCHANGED progVars

\* Admissions only, failed ones included, each call's result kept.
NextAdmit ==
    \/ \E c \in AdmitCells : CallAddRobot(c[1], c[2])
    \/ \E c \in AdmitCells : CallAddDiagonalRobot(c[1], c[2])
    \/ \E c \in AdmitCells, h \in IdHints : CallAddRobotHint(c[1], c[2], h)

SpecAdmit == Init /\ [][NextAdmit]_vars

(***************************************************************************)
(* Properties                                                              *)
(***************************************************************************)

\* The cell <<x, y>> of a robot.
cellOf(id) == <<robots[id].state.X, robots[id].state.Y>>

\* Robot id's worker executes its current command in this step.
executes(id) ==
    /\ id \in DOMAIN robots
    /\ worker[id].pc = "exec"
    /\ worker'[id].pc # "exec"

\* The command robot id's worker is at.
currentCmd(id) == worker[id].commands[worker[id].i]

\* The displacement of a move command.
moveCmds ==
    {"N", "S", "E", "W", MoveNorthEast, MoveNorthWest, MoveSouthEast, MoveSouthWest}
dx(cmd) == CASE cmd \in {"E", MoveNorthEast, MoveSouthEast} -> 1
             [] cmd \in {"W", MoveNorthWest, MoveSouthWest} -> -1
             [] OTHER -> 0
dy(cmd) == CASE cmd \in {"N", MoveNorthEast, MoveNorthWest} -> 1
             [] cmd \in {"S", MoveSouthEast, MoveSouthWest} -> -1
             [] OTHER -> 0

\* The cell a move command of robot id aims at, as integers.
target(id, cmd) == <<robots[id].state.X + dx(cmd), robots[id].state.Y + dy(cmd)>>
inGrid(c) == c[1] \in 0..(GridSize - 1) /\ c[2] \in 0..(GridSize - 1)

\* A task's channels are both closed.
terminated(t) == tasks[t].posClosed > 0 /\ tasks[t].errClosed > 0

\* The worker has received the task: it is neither queued nor being sent.
started(t) ==
    LET r == robots[tasks[t].robot] IN
    /\ r.sending # t
    /\ \A k \in 1..Len(r.taskQueue) : r.taskQueue[k] # t

\* C1: in every reachable state each registered robot's cell of the
\* occupancy grid holds its id, and every non-empty cell names a registered
\* robot whose position is that cell.
C1_OccupancyMatchesRobots ==
    /\ \A id \in DOMAIN robots :
          /\ robots[id].state.X \in Index
          /\ robots[id].state.Y \in Index
          /\ gridyx[robots[id].state.Y][robots[id].state.X] = id
    /\ \A y \in Index, x \in Index :
          gridyx[y][x] # Empty =>
              /\ gridyx[y][x] \in DOMAIN robots
              /\ cellOf(gridyx[y][x]) = <<x, y>>

\* C1 witness: two robots are registered and one of them has moved off the
\* row it was admitted on.
C1_Witness ==
    /\ Cardinality(DOMAIN robots) = 2
    /\ \E id \in DOMAIN robots :
          /\ robots[id].state.Y = 1
          /\ worker[id].pc = "publish"

\* No two robots are on one cell.
NoSharedCell ==
    \A a \in DOMAIN robots, b \in DOMAIN robots : a # b => cellOf(a) # cellOf(b)

\* C2: no two robots ever occupy the same cell; when the workers of two
\* robots are both about to execute a move to the same empty cell, the one
\* that executes first moves there and the other's executeCommand then
\* returns ErrPositionOccupied.
C2_OneMoveWins ==
    [][ /\ NoSharedCell'
        /\ \A a \in DOMAIN robots, b \in DOMAIN robots :
              ( /\ a # b
                /\ executes(a)
                /\ worker[b].pc = "exec"
                /\ currentCmd(a) \in moveCmds
                /\ currentCmd(b) \in moveCmds
                /\ target(a, currentCmd(a)) = target(b, currentCmd(b))
                /\ inGrid(target(a, currentCmd(a)))
                /\ gridyx[target(a, currentCmd(a))[2]][target(a, currentCmd(a))[1]] = Empty )
              => /\ worker'[a].err = Nil
                 /\ cellOf(a)' = target(a, currentCmd(a))
                 /\ executeCommand(robots'[b], currentCmd(b), gridyx', cratesyx').err
                        = ErrPositionOccupied
      ]_vars

\* C2 witness: a robot has just moved to (1,1) and the other robot's move
\* north from (1,0) to that cell was refused as occupied.
C2_Witness ==
    \E a \in DOMAIN robots, b \in DOMAIN robots :
        /\ a # b
        /\ cellOf(a) = <<1, 1>>
        /\ worker[a].pc = "publish"
        /\ cellOf(b) = <<1, 0>>
        /\ worker[b].pc = "closeErr"
        /\ worker[b].err = ErrPositionOccupied
        /\ worker[b].commands[worker[b].i] = "N"

\* C3: a robot's tasks are executed in the order EnqueueTask accepted them
\* (task ids grow in that order), one at a time: a task is received by the
\* worker only after every earlier task of the robot has both its channels
\* closed, so the closes happen in submission order too.
C3_TasksInOrder ==
    \A t1 \in DOMAIN tasks, t2 \in DOMAIN tasks :
        ( /\ tasks[t1].robot = tasks[t2].robot
          /\ t1 < t2
          /\ started(t2) )
        => /\ started(t1)
           /\ terminated(t1)

\* C3 witness: two tasks of one robot, the first terminated and the second
\* being executed.
C3_Witness ==
    \E t1 \in DOMAIN tasks, t2 \in DOMAIN tasks :
        /\ tasks[t1].robot = tasks[t2].robot
        /\ t1 < t2
        /\ terminated(t1)
        /\ worker[tasks[t2].robot].task = t2
        /\ worker[tasks[t2].robot].pc = "publish"

\* EnqueueTask has returned task t to its caller.
accepted(t) == t \in DOMAIN tasks /\ robots[tasks[t].robot].sending # t

\* C4: under fair scheduling every accepted task eventually has both its
\* channels closed, whether or not anyone reads them and whatever became of
\* the tasks before it.
C4_AcceptedTaskTerminates ==
    \A t \in 1..MaxQueueTasks :
        accepted(t) ~> (t \in DOMAIN tasks /\ terminated(t))

\* The worker is done with task t.
finished(t) == started(t) /\ worker[tasks[t].robot].task # t

\* The worker is executing task t and has not reached its deferred closes.
running(t) ==
    /\ worker[tasks[t].robot].task = t
    /\ worker[tasks[t].robot].pc \in {"loop", "exec", "publish"}

\* C5: of every task, positionCh, errorCh and the cancel channel are each
\* closed at most once and nothing is sent on a closed channel; positionCh
\* and errorCh are open until the task ends and each closed exactly once
\* when the worker is done with it.
C5_ChannelsClosedOnce ==
    \A t \in DOMAIN tasks :
        /\ tasks[t].posClosed <= 1
        /\ tasks[t].errClosed <= 1
        /\ tasks[t].cancelClosed <= 1
        /\ ~tasks[t].sentOnClosed
        /\ finished(t) => tasks[t].posClosed = 1 /\ tasks[t].errClosed = 1
        /\ (~started(t) \/ running(t)) =>
              tasks[t].posClosed = 0 /\ tasks[t].errClosed = 0

\* C5 witness: a task cancelled while it was executed has ended with both
\* channels closed, and a later task of the robot was cancelled in the queue.
C5_Witness ==
    \E t1 \in DOMAIN tasks, t2 \in DOMAIN tasks :
        /\ t1 # t2
        /\ finished(t1)
        /\ tasks[t1].cancelClosed = 1
        /\ tasks[t1].executed = 1
        /\ tasks[t1].posClosed = 1
        /\ tasks[t1].errClosed = 1
        /\ tasks[t2].robot = tasks[t1].robot
        /\ tasks[t2].cancelClosed = 1
        /\ ~started(t2)

\* The state a robot reaches from st by the displacements of cmds.
RECURSIVE walk(_, _)
walk(st, cmds) ==
    IF cmds = <<>> THEN st
    ELSE walk([st EXCEPT !.X = @ + dx(Head(cmds)), !.Y = @ + dy(Head(cmds))],
              Tail(cmds))

\* The errors a task has put on its errorCh, received or not.
delivered(task) == task.errRecv \o task.errorCh

closing == {"closeErr", "closePos", "cleanup"}

\* C6: when executeCommand fails on a command, the task's errorCh gets that
\* command's error and nothing else, the command loop is left, the robot is
\* where the commands before the failing one took it, and no further
\* command of the task is executed.
C6_AbortAtFirstError ==
    [][ /\ \A id \in DOMAIN robots :
              (executes(id) /\ worker'[id].err # Nil) =>
                  LET w == worker[id] IN
                  /\ worker'[id].err =
                        executeCommand(robots[id], currentCmd(id), gridyx, cratesyx).err
                  /\ delivered(tasks'[w.task]) = <<worker'[id].err>>
                  /\ worker'[id].pc = "closeErr"
                  /\ tasks'[w.task].executed = w.i
                  /\ robots'[id].state =
                        walk(w.start, SubSeq(w.commands, 1, w.i - 1))
        /\ \A id \in DOMAIN robots :
              worker[id].pc \in closing =>
                  /\ worker'[id].pc \in closing \cup {"idle"}
                  /\ tasks'[worker[id].task].executed = tasks[worker[id].task].executed
                  /\ robots'[id].state = robots[id].state
        /\ \A t \in DOMAIN tasks :
              finished(t) => tasks'[t].executed = tasks[t].executed
      ]_vars

\* C6 witness: "NX" given to a plain robot at (0,0) has failed on its second
\* command with the robot at (0,1) and the error on errorCh.
C6_Witness ==
    \E id \in DOMAIN robots :
        /\ worker[id].pc = "closePos"
        /\ worker[id].commands = <<"N", "X">>
        /\ worker[id].err = ErrUnknownCommand
        /\ worker[id].start.X = 0 /\ worker[id].start.Y = 0
        /\ cellOf(id) = <<0, 1>>
        /\ tasks[worker[id].task].executed = 2
        /\ tasks[worker[id].task].errorCh = <<ErrUnknownCommand>>

diagonalCmds == {MoveNorthEast, MoveNorthWest, MoveSouthEast, MoveSouthWest}

\* Another robot is on cell c.
taken(id, c) == gridyx[c[2]][c[1]] \notin {Empty, id}

\* C8: a diagonal command moves the robot on both axes or not at all: with
\* its target off the grid on either axis it fails with ErrOutOfBounds,
\* with its target occupied it fails, and either way no robot and no cell
\* changes; otherwise the robot is on the target.
C8_DiagonalAtomic ==
    [][ \A id \in DOMAIN robots :
            (executes(id) /\ currentCmd(id) \in diagonalCmds) =>
                LET c == target(id, currentCmd(id)) IN
                IF ~inGrid(c)
                THEN /\ worker'[id].err = ErrOutOfBounds
                     /\ robots' = robots
                     /\ gridyx' = gridyx
                ELSE IF taken(id, c)
                THEN /\ worker'[id].err # Nil
                     /\ robots' = robots
                     /\ gridyx' = gridyx
                ELSE /\ worker'[id].err = Nil
                     /\ cellOf(id)' = c
      ]_vars

\* C8 witness: a diagonal robot at (0,0) was refused a move south-west.
C8_Witness ==
    \E id \in DOMAIN robots :
        /\ robots[id].isDiagonal
        /\ cellOf(id) = <<0, 0>>
        /\ worker[id].pc = "closeErr"
        /\ worker[id].commands[worker[id].i] = MoveSouthWest
        /\ worker[id].err = ErrOutOfBounds

\* C9: a move onto a cell of the grid that another robot occupies fails
\* with ErrPositionOccupied, which ends the task as the one error on its
\* errorCh, and changes no robot and no cell.
C9_CollisionNoChange ==
    [][ \A id \in DOMAIN robots :
            ( /\ executes(id)
              /\ currentCmd(id) \in moveCmds
              /\ inGrid(target(id, currentCmd(id)))
              /\ taken(id, target(id, currentCmd(id))) )
            => /\ worker'[id].err = ErrPositionOccupied
               /\ worker'[id].pc = "closeErr"
               /\ delivered(tasks'[worker[id].task]) = <<ErrPositionOccupied>>
               /\ robots' = robots
               /\ gridyx' = gridyx
      ]_vars

\* C9 witness: a robot at (0,0) was refused a move east onto the robot at
\* (1,0), its task is over and the error is on errorCh.
C9_Witness ==
    \E a \in DOMAIN robots, b \in DOMAIN robots :
        /\ a # b
        /\ cellOf(a) = <<1, 0>>
        /\ cellOf(b) = <<0, 0>>
        /\ worker[b].pc = "cleanup"
        /\ worker[b].commands[worker[b].i] = "E"
        /\ worker[b].err = ErrPositionOccupied
        /\ delivered(tasks[worker[b].task]) = <<ErrPositionOccupied>>

\* C10: no registered robot has a coordinate outside [0, GridSize): what
\* movement refuses, admission refuses.
C10_AdmittedInGrid ==
    \A id \in DOMAIN robots :
        /\ robots[id].state.X < GridSize
        /\ robots[id].state.Y < GridSize

\* This step is a call of op returning to its caller.
returns(op) == obs'.ret.op = op /\ obs'.ret # obs.ret

\* The cells <<x, y>> of the occupancy grid that hold id.
cellsOf(grid, id) == {c \in Index \X Index : grid[c[2]][c[1]] = id}

\* C11: AddRobot and AddDiagonalRobot at a cell of the grid that holds a
\* robot return ErrPositionOccupied and no handle and change neither the
\* registry nor the occupancy grid; an admission that succeeds registers
\* the robot and marks its cell in the same step.
C11_OccupiedAdmissionRefused ==
    [][ \A op \in {"AddRobot", "AddDiagonalRobot"} :
            returns(op) =>
                LET x == obs'.ret.args[1]
                    y == obs'.ret.args[2]
                    id == obs'.ret.val
                IN  /\ (inGrid(<<x, y>>) /\ gridyx[y][x] # Empty) =>
                          /\ obs'.ret.err = ErrPositionOccupied
                          /\ id = Empty
                          /\ robots' = robots
                          /\ gridyx' = gridyx
                    /\ obs'.ret.err = Nil =>
                          /\ id \notin DOMAIN robots
                          /\ DOMAIN robots' = DOMAIN robots \cup {id}
                          /\ \A r \in DOMAIN robots : robots'[r] = robots[r]
                          /\ robots'[id].state = [X |-> x, Y |-> y, HasCrate |-> FALSE]
                          /\ gridyx' = [gridyx EXCEPT ![y][x] = id]
      ]_vars

put(f, k, v) == [x \in DOMAIN f \cup {k} |-> IF x = k THEN v ELSE f[x]]

\* Where task t is: in the queue, at a step of the worker, or done.
whereIs(t) ==
    IF ~started(t) THEN "queued"
    ELSE IF worker[tasks[t].robot].task = t THEN worker[tasks[t].robot].pc
    ELSE "done"

\* A call of CancelTask as its caller sees it: nil or an error.  Of a call
\* that succeeds the caller keeps where the task was and how many of its
\* commands had been handed to executeCommand.
CallCancelTask(id, taskID) ==
    /\ id \in DOMAIN robots
    /\ ~muLocked(robots[id])
    /\ LET res == cancelTask(robots[id], taskID, tasks) IN
       \/ /\ CancelTask(id, taskID)
          /\ obs' = [obs EXCEPT
                !.ret = returned("CancelTask", <<id, taskID>>, Nil, Empty),
                !.cancelAt = put(@, taskID,
                    [pc |-> whereIs(taskID), executed |-> tasks[taskID].executed])]
       \/ /\ res.err # Nil
          /\ obs' = [obs EXCEPT
                !.ret = returned("CancelTask", <<id, taskID>>, res.err, Empty)]
          /\ UNCHANGED progVars

\* The command strings submitted in a run of SpecCancel: three moves, a move
\* and an unknown command, a blank string and the empty string.
CancelPrograms == { <<"N", "N", "N">>, <<"N", "X">>, <<" ">>, <<>> }

\* One robot at the origin, its tasks and the calls of CancelTask, failed
\* ones included.
NextCancel ==
    \/ AddRobot(0, 0) /\ UNCHANGED obs
    \/ \E p \in CancelPrograms :
          /\ Cardinality(DOMAIN tasks) < MaxTasks
          /\ EnqueueTask(1, p)
          /\ UNCHANGED obs
    \/ \E t \in 1..MaxTasks : CallCancelTask(1, t)
    \/ Dequeue(1) /\ UNCHANGED obs
    \/ LoopHead(1) /\ UNCHANGED obs
    \/ Execute(1) /\ UNCHANGED obs
    \/ Publish(1) /\ UNCHANGED obs
    \/ CloseErrorCh(1) /\ UNCHANGED obs
    \/ ClosePositionCh(1) /\ UNCHANGED obs
    \/ Cleanup(1) /\ UNCHANGED obs
    \/ \E t \in 1..MaxTasks : RecvError(t) /\ UNCHANGED obs

SpecCancel == Init /\ [][NextCancel]_vars

\* The steps of the worker between receiving a task and its deferred closes.
executing == {"loop", "exec", "publish"}

\* The tasks CancelTask succeeded for while the worker was executing them.
cancelledExecuting ==
    {t \in DOMAIN obs.cancelAt : obs.cancelAt[t].pc \in executing}

\* The commands of task t handed to executeCommand since its CancelTask
\* are at most the one that was in flight.
onlyInFlight(t) ==
    tasks[t].executed <=
        obs.cancelAt[t].executed + (IF obs.cancelAt[t].pc = "exec" THEN 1 ELSE 0)

\* The worker is at the deferred closes of task t.
ending(t) ==
    /\ worker[tasks[t].robot].task = t
    /\ worker[tasks[t].robot].pc \in closing

\* The robot of task t is where the first k commands of the task lead.
stateAfter(t, k) ==
    LET w == worker[tasks[t].robot] IN
    robots[tasks[t].robot].state = walk(w.start, SubSeq(w.commands, 1, k))

cancelledQueued ==
    {t \in DOMAIN obs.cancelAt : obs.cancelAt[t].pc = "queued"}

\* Task t has had no command executed and no position published, and while
\* the worker has it the robot is where it was when the task was received.
untouched(t) ==
    LET w == worker[tasks[t].robot] IN
    /\ tasks[t].executed = 0
    /\ w.task = t =>
          /\ w.pc \notin {"exec", "publish"}
          /\ w.i = 1
          /\ robots[tasks[t].robot].state = w.start

C15_RepeatedCancelNotFound ==
    [][ returns("CancelTask") =>
            LET t == obs'.ret.args[2] IN
            /\ (t \notin DOMAIN tasks \/ t \in DOMAIN obs.cancelAt) =>
                  /\ obs'.ret.err = ErrTaskNotFound
                  /\ UNCHANGED progVars
            /\ obs'.ret.err = Nil =>
                  /\ t \in DOMAIN tasks
                  /\ t \notin DOMAIN obs.cancelAt
      ]_vars

\* The errors that tell a caller of CancelTask that the task is not known.
notFound == {ErrTaskNotFound, errCancelNotFound}

\* C16: CancelTask for a task whose channels are both closed fails with a
\* task-not-found error, whether or not the worker has yet removed the
\* task's cancel channel from the map.
C16_CancelAfterTermination ==
    [][ returns("CancelTask") =>
            LET t == obs'.ret.args[2] IN
            (t \in DOMAIN tasks /\ terminated(t)) => obs'.ret.err \in notFound
      ]_vars

\* What task t's errorCh has carried is what its end calls for: the error
\* the worker ended the task with, or nothing after a clean end.
terminalError(t) ==
    /\ Len(delivered(tasks[t])) <= 1
    /\ ending(t) =>
          LET w == worker[tasks[t].robot] IN
          delivered(tasks[t]) = IF w.err = Nil THEN <<>> ELSE <<w.err>>

\* C17: a task that ends by a command error or by cancellation has put
\* exactly that one error on its errorCh before the channel is closed,
\* received or not, and a task that ends cleanly has put nothing on it;
\* nothing is added once the task is ending.
C17_OneTerminalError ==
    [][ \A t \in DOMAIN tasks' :
            /\ terminalError(t)'
            /\ (t \in DOMAIN tasks /\ (ending(t) \/ finished(t))) =>
                  delivered(tasks'[t]) = delivered(tasks[t])
      ]_vars

\* C17 witness: two tasks have ended, one by a command error and one by
\* cancellation; each error lies unreceived on its closed channel.
C17_Witness ==
    \E t1 \in DOMAIN tasks, t2 \in DOMAIN tasks :
        /\ finished(t1)
        /\ tasks[t1].errClosed = 1
        /\ tasks[t1].errorCh = <<ErrUnknownCommand>>
        /\ tasks[t1].errRecv = <<>>
        /\ ending(t2)
        /\ worker[tasks[t2].robot].pc = "cleanup"
        /\ tasks[t2].errorCh = <<ErrTaskCancelled>>
        /\ tasks[t2].errRecv = <<>>

(***************************************************************************)
(* The positions channel as its observer sees it                           *)
(***************************************************************************)

\* The positions received so far from task t.
received(t) == IF t \in DOMAIN obs.posRecv THEN obs.posRecv[t] ELSE <<>>

\* The send on positionCh finds an observer receiving: the observer gets
\* CurrentState().  after is the number of the command just executed.
PublishReceived(id) ==
    /\ Publish(id)
    /\ LET t == worker[id].task IN
       obs' = [obs EXCEPT !.posRecv =
                  put(@, t, Append(received(t),
                      [after |-> worker[id].i, state |-> robots[id].state]))]

\* The send on positionCh finds nobody receiving: the value is dropped.
PublishDropped(id) == Publish(id) /\ UNCHANGED obs

\* The command strings submitted in a run of SpecObserve.
ObservePrograms == { <<"N", "E", "N">>, <<"E", "X">> }

\* One robot at the origin, its tasks, and an observer that receives some
\* of the positions sent.
NextObserve ==
    \/ AddRobot(0, 0) /\ UNCHANGED obs
    \/ \E p \in ObservePrograms :
          /\ Cardinality(DOMAIN tasks) < MaxTasks
          /\ EnqueueTask(1, p)
          /\ UNCHANGED obs
    \/ \E t \in 1..MaxTasks : CancelTask(1, t) /\ UNCHANGED obs
    \/ Dequeue(1) /\ UNCHANGED obs
    \/ LoopHead(1) /\ UNCHANGED obs
    \/ Execute(1) /\ UNCHANGED obs
    \/ PublishReceived(1)
    \/ PublishDropped(1)
    \/ CloseErrorCh(1) /\ UNCHANGED obs
    \/ ClosePositionCh(1) /\ UNCHANGED obs
    \/ Cleanup(1) /\ UNCHANGED obs
    \/ \E t \in 1..MaxTasks : RecvError(t) /\ UNCHANGED obs

SpecObserve == Init /\ [][NextObserve]_vars

\* C18: under SpecObserve, every value received on a task's positions
\* channel is the robot's state after a successful command of the task, later
\* in the program than every value received before it, and it is received
\* while no terminal error has been sent and neither channel is closed; once
\* the positions channel is closed, the errors channel is closed too and
\* what it carries no longer changes.
C18_PositionsBeforeTerminal ==
    [][ /\ \A t \in DOMAIN tasks :
              received(t)' # received(t) =>
                 LET w   == worker[tasks[t].robot]
                     new == received(t)'[Len(received(t)')]
                 IN  /\ received(t)' = Append(received(t), new)
                     /\ w.task = t
                     /\ new.after \in 1..tasks[t].executed
                     /\ new.state = walk(w.start, SubSeq(w.commands, 1, new.after))
                     /\ \A k \in 1..Len(received(t)) :
                           received(t)[k].after < new.after
                     /\ delivered(tasks[t]) = <<>>
                     /\ tasks[t].errClosed = 0
                     /\ tasks[t].posClosed = 0
        /\ \A t \in DOMAIN tasks' :
              tasks'[t].posClosed > 0 =>
                 /\ tasks'[t].errClosed > 0
                 /\ terminalError(t)'
                 /\ (t \in DOMAIN tasks /\ tasks[t].posClosed > 0) =>
                       delivered(tasks'[t]) = delivered(tasks[t])
      ]_vars

\* C18 witness: one task ran three commands and its observer received the
\* first and the third position but not the second; another task failed at
\* its second command after its observer received the first position, and
\* its error is on the errors channel; both tasks' channels are closed.
C18_Witness ==
    \E t1, t2 \in DOMAIN tasks :
       /\ terminated(t1) /\ terminated(t2)
       /\ tasks[t1].commands = <<"N", "E", "N">>
       /\ Len(received(t1)) = 2
       /\ received(t1)[1].after = 1
       /\ received(t1)[2].after = 3
       /\ tasks[t2].commands = <<"E", "X">>
       /\ Len(received(t2)) = 1
       /\ delivered(tasks[t2]) = <<ErrUnknownCommand>>

\* C19: under SpecObserve, of two tasks of one robot, the later one has
\* executed no command and had no position received until both channels of
\* the earlier one are closed.
C19_SecondWaitsForFirst ==
    \A t1, t2 \in DOMAIN tasks :
       ( /\ t1 < t2
         /\ tasks[t1].robot = tasks[t2].robot
         /\ (tasks[t2].executed > 0 \/ received(t2) # <<>>) )
       => /\ tasks[t1].posClosed > 0
          /\ tasks[t1].errClosed > 0

\* C19 witness: the second task has executed a command and had a position
\* received, after a first task that executed commands and whose channels
\* are closed.
C19_Witness ==
    \E t1, t2 \in DOMAIN tasks :
       /\ t1 < t2
       /\ tasks[t1].robot = tasks[t2].robot
       /\ tasks[t1].executed > 0
       /\ terminated(t1)
       /\ tasks[t2].executed > 0
       /\ received(t2) # <<>>
       /\ ~terminated(t2)

(***************************************************************************)
(* The crate warehouse                                                     *)
(***************************************************************************)

\* The kind of the warehouse is fixed when it is made.  The state keeps no
\* field for it: a robot that cannot pick crates shows a plain warehouse,
\* a crate or a robot that can pick crates shows a crate warehouse.
plainWarehouse == \E id \in DOMAIN robots : ~robots[id].canPickCrates

crateWarehouse ==
    cratesyx # {} \/ \E id \in DOMAIN robots : robots[id].canPickCrates

\* The error AddCrate and DelCrate return for a cell outside the grid.
ErrCrateOutOfBounds == "ErrCrateOutOfBounds"

\* An AddCrate with the bound of AddRobot, which lets the edge GridSize in.
addCrate_edge(x, y) ==
    IF plainWarehouse THEN [err |-> ErrInvalidWarehouseType]
    ELSE IF x > GridSize \/ y > GridSize THEN [err |-> ErrCrateOutOfBounds]
    ELSE IF <<y, x>> \in cratesyx THEN [err |-> ErrCrateExists]
    ELSE [err |-> Nil]

\* AddCrate and DelCrate of the CrateWarehouse interface.
addCrate(x, y) ==
    IF plainWarehouse THEN [err |-> ErrInvalidWarehouseType]
    ELSE IF x >= GridSize \/ y >= GridSize THEN [err |-> ErrCrateOutOfBounds]
    ELSE IF <<y, x>> \in cratesyx THEN [err |-> ErrCrateExists]
    ELSE [err |-> Nil]

AddCrate(x, y) ==
    /\ wmu = Empty
    /\ addCrate(x, y).err = Nil
    /\ cratesyx' = cratesyx \cup {<<y, x>>}
    /\ UNCHANGED <<gridyx, robots, worker, tasks, wmu>>

\* A DelCrate that takes the crate of the neighbouring cell.
DelCrate_neighbour(x, y) ==
    /\ wmu = Empty
    /\ <<y, x>> \in cratesyx
    /\ ~plainWarehouse
    /\ cratesyx' = cratesyx \ {<<y, x>>, <<y, x + 1>>}
    /\ UNCHANGED <<gridyx, robots, worker, tasks, wmu>>

delCrate(x, y) ==
    IF plainWarehouse THEN [err |-> ErrInvalidWarehouseType]
    ELSE IF x >= GridSize \/ y >= GridSize THEN [err |-> ErrCrateOutOfBounds]
    ELSE IF <<y, x>> \notin cratesyx THEN [err |-> ErrCrateNotFound]
    ELSE [err |-> Nil]

DelCrate(x, y) ==
    /\ wmu = Empty
    /\ delCrate(x, y).err = Nil
    /\ cratesyx' = cratesyx \ {<<y, x>>}
    /\ UNCHANGED <<gridyx, robots, worker, tasks, wmu>>

\* AddRobot on a warehouse made by NewCrateWarehouse: the checks of AddRobot,
\* and a robot that can pick crates.
AddCrateRobot(initialX, initialY) ==
    /\ wmu = Empty
    /\ ~plainWarehouse
    /\ LET res == addRobot(initialX, initialY) IN
       /\ res.err = Nil
       /\ register(newRobot(res.robotID, initialX, initialY, FALSE, TRUE))
    /\ UNCHANGED <<cratesyx, tasks, wmu>>

\* The cells <<x, y>> where crates and robots are put in a run of SpecCrate,
\* and the command strings submitted.
CrateCells == { <<0, 0>>, <<1, 0>> }

CrateRobotCells == CrateCells \cup { <<GridSize, 0>> }

CratePrograms == { <<"G">>, <<"D">>, <<"G", "G">>, <<"E", "G">> }

\* One robot, in a plain warehouse or in a crate warehouse, its tasks, and
\* crates added and removed meanwhile.
NextCrate ==
    \/ /\ ~crateWarehouse
       /\ Cardinality(DOMAIN robots) < MaxCrateRobots
       /\ AddRobot(0, 0)
       /\ UNCHANGED obs
    \/ \E c \in CrateRobotCells :
          /\ Cardinality(DOMAIN robots) < MaxCrateRobots
          /\ AddCrateRobot(c[1], c[2])
          /\ UNCHANGED obs
    \/ \E c \in CrateCells : AddCrate(c[1], c[2]) /\ UNCHANGED obs
    \/ \E c \in CrateCells : DelCrate(c[1], c[2]) /\ UNCHANGED obs
    \/ \E p \in CratePrograms :
          /\ Cardinality(DOMAIN tasks) < MaxTasks
          /\ EnqueueTask(1, p)
          /\ UNCHANGED obs
    \/ Dequeue(1) /\ UNCHANGED obs
    \/ LoopHead(1) /\ UNCHANGED obs
    \/ Execute(1) /\ UNCHANGED obs
    \/ Publish(1) /\ UNCHANGED obs
    \/ CloseErrorCh(1) /\ UNCHANGED obs
    \/ ClosePositionCh(1) /\ UNCHANGED obs
    \/ Cleanup(1) /\ UNCHANGED obs

SpecCrate == Init /\ [][NextCrate]_vars

\* C20: under SpecCrate, a G command fails with ErrInvalidWarehouseType when
\* the robot cannot pick crates, else with ErrRobotHasCrate when it carries
\* one (crate at its cell or not), else with ErrCrateNotFound when its cell
\* holds none, each time leaving the crates and the robot as they were;
\* otherwise it succeeds, and in that one step the crate of the cell is
\* cleared and HasCrate is set.
C20_GrabCrate ==
    [][ \A id \in DOMAIN robots :
           (executes(id) /\ currentCmd(id) = "G") =>
              LET r    == robots[id]
                  cell == <<r.state.Y, r.state.X>>
                  err  == worker'[id].err
                  same == cratesyx' = cratesyx /\ robots'[id].state = r.state
              IN  IF ~r.canPickCrates
                  THEN err = ErrInvalidWarehouseType /\ same
                  ELSE IF r.state.HasCrate
                  THEN err = ErrRobotHasCrate /\ same
                  ELSE IF cell \notin cratesyx
                  THEN err = ErrCrateNotFound /\ same
                  ELSE /\ err = Nil
                       /\ cratesyx' = cratesyx \ {cell}
                       /\ robots'[id].state = [r.state EXCEPT !.HasCrate = TRUE]
      ]_vars

\* C20 witness: a robot that carries a crate, on a cell where another crate
\* lies, was refused a G with ErrRobotHasCrate; the task before it on this
\* robot grabbed.
C20_Witness ==
    \E id \in DOMAIN robots :
       /\ robots[id].canPickCrates
       /\ robots[id].state.HasCrate
       /\ <<robots[id].state.Y, robots[id].state.X>> \in cratesyx
       /\ worker[id].pc = "closeErr"
       /\ worker[id].err = ErrRobotHasCrate
       /\ worker[id].commands = <<"G">>
       /\ \E t \in DOMAIN tasks :
             /\ finished(t)
             /\ tasks[t].executed > 0
             /\ delivered(tasks[t]) = <<>>

\* C21: under SpecCrate, a D command fails with ErrInvalidWarehouseType when
\* the robot cannot pick crates, else with ErrRobotNotCrate when it carries
\* none, else with ErrCrateExists when its cell holds a crate, each time
\* leaving the crates and the robot as they were; otherwise it succeeds, and
\* in that one step the crate of the cell is set and HasCrate is cleared.
C21_DropCrate ==
    [][ \A id \in DOMAIN robots :
           (executes(id) /\ currentCmd(id) = "D") =>
              LET r    == robots[id]
                  cell == <<r.state.Y, r.state.X>>
                  err  == worker'[id].err
                  same == cratesyx' = cratesyx /\ robots'[id].state = r.state
              IN  IF ~r.canPickCrates
                  THEN err = ErrInvalidWarehouseType /\ same
                  ELSE IF ~r.state.HasCrate
                  THEN err = ErrRobotNotCrate /\ same
                  ELSE IF cell \in cratesyx
                  THEN err = ErrCrateExists /\ same
                  ELSE /\ err = Nil
                       /\ cratesyx' = cratesyx \cup {cell}
                       /\ robots'[id].state = [r.state EXCEPT !.HasCrate = FALSE]
      ]_vars

\* C21 witness: a robot that grabbed a crate was refused a D with
\* ErrCrateExists on a cell where another crate was put meanwhile; it still
\* carries its crate and the crate of the cell is still there.
C21_Witness ==
    \E id \in DOMAIN robots :
       /\ robots[id].canPickCrates
       /\ robots[id].state.HasCrate
       /\ <<robots[id].state.Y, robots[id].state.X>> \in cratesyx
       /\ worker[id].pc = "closeErr"
       /\ worker[id].err = ErrCrateExists
       /\ currentCmd(id) = "D"

(***************************************************************************)
(* Two robots and the crates between them                                  *)
(***************************************************************************)

\* The cells <<x, y>> where the two robots of SpecCarry are admitted, and
\* the command strings submitted: a crate is grabbed, carried to the cell
\* between the robots and dropped; a crate is fetched from that cell.
CarryRobotCells == { <<0, 0>>, <<2, 0>> }

CarryPrograms == { <<"G", "E", "D", "W">>, <<"W", "G", "E", "D">> }

\* Two robots of a crate warehouse, one task each at most MaxTasks in all,
\* and crates added and removed meanwhile.
NextCarry ==
    \/ \E c \in CarryRobotCells :
          /\ Cardinality(DOMAIN robots) < MaxRobots
          /\ AddCrateRobot(c[1], c[2])
          /\ UNCHANGED obs
    \/ \E c \in CrateCells : AddCrate(c[1], c[2]) /\ UNCHANGED obs
    \/ \E c \in CrateCells : DelCrate(c[1], c[2]) /\ UNCHANGED obs
    \/ \E id \in 1..MaxRobots, p \in CarryPrograms :
          /\ Cardinality(DOMAIN tasks) < MaxTasks
          /\ EnqueueTask(id, p)
          /\ UNCHANGED obs
    \/ \E id \in 1..MaxRobots : Dequeue(id) /\ UNCHANGED obs
    \/ \E id \in 1..MaxRobots : LoopHead(id) /\ UNCHANGED obs
    \/ \E id \in 1..MaxRobots : Execute(id) /\ UNCHANGED obs
    \/ \E id \in 1..MaxRobots : Publish(id) /\ UNCHANGED obs
    \/ \E id \in 1..MaxRobots : CloseErrorCh(id) /\ UNCHANGED obs
    \/ \E id \in 1..MaxRobots : ClosePositionCh(id) /\ UNCHANGED obs
    \/ \E id \in 1..MaxRobots : Cleanup(id) /\ UNCHANGED obs

SpecCarry == Init /\ [][NextCarry]_vars

\* The crates on the floor and the crates carried.
carrying == { id \in DOMAIN robots : robots[id].state.HasCrate }

crateCount == Cardinality(cratesyx) + Cardinality(carrying)

\* C22: under SpecCarry, the number of crates on the floor plus the number
\* of robots carrying one changes only in a step that adds one crate to or
\* removes one crate from the floor and touches no robot; every command a
\* robot executes leaves the number as it was.
C22_CratesConserved ==
    [][ /\ \/ crateCount' = crateCount
           \/ /\ robots' = robots
              /\ worker' = worker
              /\ \E c \in CrateCells :
                    LET cell == <<c[2], c[1]>> IN
                    \/ /\ cell \notin cratesyx
                       /\ cratesyx' = cratesyx \cup {cell}
                       /\ crateCount' = crateCount + 1
                    \/ /\ cell \in cratesyx
                       /\ cratesyx' = cratesyx \ {cell}
                       /\ crateCount' = crateCount - 1
        /\ \A id \in DOMAIN robots : executes(id) => crateCount' = crateCount
      ]_vars

\* C22 witness: both robots carry a crate and none is left on the floor;
\* one of them fetched its crate from the cell between the robots.
C22_Witness ==
    /\ cratesyx = {}
    /\ Cardinality(carrying) = 2
    /\ \E id \in carrying :
          /\ worker[id].commands = <<"W", "G", "E", "D">>
          /\ worker[id].pc = "loop"
          /\ worker[id].i = 3

(***************************************************************************)
(* AddCrate and DelCrate as their caller sees them                         *)
(***************************************************************************)

\* A call of AddCrate and what it returns.  The caller keeps the crate map
\* it saw before the call.
CallAddCrate(x, y) ==
    LET res == addCrate(x, y) IN
    /\ obs' = [obs EXCEPT !.ret = returned("AddCrate", <<x, y>>, res.err, cratesyx)]
    /\ \/ AddCrate(x, y)
       \/ res.err # Nil /\ wmu = Empty /\ UNCHANGED progVars

CallDelCrate(x, y) ==
    LET res == delCrate(x, y) IN
    /\ obs' = [obs EXCEPT !.ret = returned("DelCrate", <<x, y>>, res.err, cratesyx)]
    /\ \/ DelCrate(x, y)
       \/ res.err # Nil /\ wmu = Empty /\ UNCHANGED progVars

\* The cells <<x, y>> AddCrate and DelCrate are called with in a run of
\* SpecCrateCalls: inside the grid, on its edge and beyond it.
CrateCallCells == { <<0, 0>>, <<1, 0>>, <<GridSize, 0>>, <<1, GridSize + 1>> }

CrateCallPrograms == { <<"G">>, <<"D">> }

\* One robot, in a plain warehouse or in a crate warehouse, and the calls of
\* AddCrate and DelCrate, while the robot grabs and drops.
NextCrateCalls ==
    \/ /\ ~crateWarehouse
       /\ Cardinality(DOMAIN robots) < MaxCrateRobots
       /\ AddRobot(0, 0)
       /\ UNCHANGED obs
    \/ /\ Cardinality(DOMAIN robots) < MaxCrateRobots
       /\ AddCrateRobot(0, 0)
       /\ UNCHANGED obs
    \/ \E c \in CrateCallCells : CallAddCrate(c[1], c[2])
    \/ \E c \in CrateCallCells : CallDelCrate(c[1], c[2])
    \/ \E p \in CrateCallPrograms :
          /\ Cardinality(DOMAIN tasks) < MaxTasks
          /\ EnqueueTask(1, p)
          /\ UNCHANGED obs
    \/ Dequeue(1) /\ UNCHANGED obs
    \/ LoopHead(1) /\ UNCHANGED obs
    \/ Execute(1) /\ UNCHANGED obs
    \/ Publish(1) /\ UNCHANGED obs
    \/ CloseErrorCh(1) /\ UNCHANGED obs
    \/ ClosePositionCh(1) /\ UNCHANGED obs
    \/ Cleanup(1) /\ UNCHANGED obs

SpecCrateCalls == Init /\ [][NextCrateCalls]_vars

\* The cell <<y, x>> a returned call was made with, and whether it lies in
\* the grid.
calledCell(ret) == <<ret.args[2], ret.args[1]>>

calledInGrid(ret) == ret.args[1] < GridSize /\ ret.args[2] < GridSize

C24_AddThenDelRestores ==
    [][ /\ ( /\ returns("AddCrate")
             /\ ~plainWarehouse
             /\ calledInGrid(obs'.ret)
             /\ calledCell(obs'.ret) \notin cratesyx )
           => /\ obs'.ret.err = Nil
              /\ cratesyx' = cratesyx \cup {calledCell(obs'.ret)}
              /\ robots' = robots /\ gridyx' = gridyx
        /\ ( /\ returns("DelCrate")
             /\ obs.ret.op = "AddCrate"
             /\ obs.ret.err = Nil
             /\ obs.ret.args = obs'.ret.args
             /\ cratesyx = obs.ret.val \cup {calledCell(obs.ret)} )
           => /\ obs'.ret.err = Nil
              /\ cratesyx' = obs.ret.val
              /\ robots' = robots /\ gridyx' = gridyx
      ]_vars

\* C24 witness: DelCrate has just succeeded on the cell of the AddCrate
\* before it, in a warehouse that holds another crate and a robot, and the
\* crate map is the one the AddCrate found.
C24_Witness ==
    /\ obs.ret.op = "DelCrate"
    /\ obs.ret.err = Nil
    /\ obs.ret.args = <<1, 0>>
    /\ obs.ret.val = {<<0, 0>>, <<0, 1>>}
    /\ cratesyx = {<<0, 0>>}
    /\ DOMAIN robots # {}

(***************************************************************************)
(* Parsing and rewriting of command strings                                *)
(***************************************************************************)

\* The tab and the newline, whitespace that is not the space.
Tab == "\t"
Newline == "\n"

\* The runes of the command strings parsed in a run of SpecText: the
\* commands, an unknown letter, the space, the tab, the newline and the
\* zero rune.
TextRunes == {"N", "E", "S", "W", "G", "D", "X", " ", Tab, Newline, NoRune}

\* The command strings of the tests and of the README.
TestPrograms ==
    { <<"N", "E", "E", "N", "W", "W">>,
      <<"N", " ", "E", " ", "E", " ", "N", " ", "W", " ", "W">>,
      <<"W", "N", "W">>,
      <<"S", "S", "W", "S", "E">>,
      <<"E", "E">>,
      <<"N", Tab, "E">> }

\* Every string of at most MaxProgramLen runes, and the strings of the tests.
TextPrograms ==
    TestPrograms \cup UNION { [1..n -> TextRunes] : n \in 0..MaxProgramLen }

\* A caller picks a command string.
ChooseProgram(commands) ==
    /\ obs.ret.op = "none"
    /\ obs' = [obs EXCEPT !.ret = returned("EnqueueTask", commands, Nil, Empty)]
    /\ UNCHANGED progVars

\* executeTask parses the string,
ParseProgram ==
    /\ obs.ret.op = "EnqueueTask"
    /\ obs' = [obs EXCEPT !.ret =
          returned("parseCommands", obs.ret.args, Nil, parseCommands(obs.ret.args))]
    /\ UNCHANGED progVars

\* and, for a diagonal robot, rewrites the parsed commands.
ProcessProgram ==
    /\ obs.ret.op = "parseCommands"
    /\ obs' = [obs EXCEPT !.ret =
          returned("processCommands", obs.ret.val, Nil, processCommands(obs.ret.val))]
    /\ UNCHANGED progVars

NextText ==
    \/ /\ obs.ret.op = "none"
       /\ \E commands \in TextPrograms : ChooseProgram(commands)
    \/ ParseProgram
    \/ ProcessProgram

SpecText == Init /\ [][NextText]_vars

\* The rule of the held command: a held cardinal followed by an orthogonal
\* cardinal gives one diagonal and nothing is held; otherwise what is held
\* is flushed and the new command is held; at the end what is held is
\* flushed.  held is <<>> or the one command held.
diagonalOf(a, b) ==
    LET v == IF a \in {"N", "S"} THEN a ELSE b
        h == IF a \in {"N", "S"} THEN b ELSE a
    IN  CASE v = "N" /\ h = "E" -> MoveNorthEast
          [] v = "N" /\ h = "W" -> MoveNorthWest
          [] v = "S" /\ h = "E" -> MoveSouthEast
          [] v = "S" /\ h = "W" -> MoveSouthWest

RECURSIVE heldRule(_, _)
heldRule(commands, held) ==
    IF commands = <<>> THEN held
    ELSE LET c == Head(commands) IN
         IF /\ held # <<>>
            /\ \/ held[1] \in {"N", "S"} /\ c \in {"E", "W"}
               \/ held[1] \in {"E", "W"} /\ c \in {"N", "S"}
         THEN <<diagonalOf(held[1], c)>> \o heldRule(Tail(commands), <<>>)
         ELSE held \o heldRule(Tail(commands), <<c>>)

\* C25: under SpecText, what processCommands returns for a sequence of
\* commands is what the rule of the held command gives for it.
C25_RewriterIsHeldRule ==
    obs.ret.op = "processCommands" =>
       obs.ret.val = heldRule(obs.ret.args, <<>>)

\* C26: under SpecText, the string "N E E N W W" is rewritten to the four
\* movements North-East, East, North-West, West.
C26_ReadmeExample ==
    ( /\ obs.ret.op = "processCommands"
      /\ obs.ret.args = <<"N", "E", "E", "N", "W", "W">> )
    => obs.ret.val = <<MoveNorthEast, "E", MoveNorthWest, "W">>

\* C28: under SpecText, what parseCommands returns is the string without
\* its spaces, tabs and newlines, the other runes in their order.
C28_ParseDropsWhitespace ==
    obs.ret.op = "parseCommands" =>
       obs.ret.val = SelectSeq(obs.ret.args, LAMBDA c : c \notin {" ", Tab, Newline})

(***************************************************************************)
(* Programs with runes outside the command alphabet                        *)
(***************************************************************************)

\* The command strings submitted in a run of SpecTokens: an unknown letter,
\* a rune equal to a diagonal token, an orthogonal pair, a crate command.
TokenPrograms ==
    { <<"N", "X">>, <<MoveNorthEast>>, <<"N", "E">>, <<"G">> }

\* One robot, plain or diagonal, and its tasks.
NextTokens ==
    \/ DOMAIN robots = {} /\ AddRobot(1, 1) /\ UNCHANGED obs
    \/ DOMAIN robots = {} /\ AddDiagonalRobot(1, 1) /\ UNCHANGED obs
    \/ \E p \in TokenPrograms :
          /\ Cardinality(DOMAIN tasks) < MaxTasks
          /\ EnqueueTask(1, p)
          /\ UNCHANGED obs
    \/ Dequeue(1) /\ UNCHANGED obs
    \/ LoopHead(1) /\ UNCHANGED obs
    \/ Execute(1) /\ UNCHANGED obs
    \/ Publish(1) /\ UNCHANGED obs
    \/ CloseErrorCh(1) /\ UNCHANGED obs
    \/ ClosePositionCh(1) /\ UNCHANGED obs
    \/ Cleanup(1) /\ UNCHANGED obs

SpecTokens == Init /\ [][NextTokens]_vars

\* The commands a client may write, and the runes of the program of the
\* task a robot is working on.
alphabet == {"N", "E", "S", "W", "G", "D"}

programRunes(id) ==
    LET commands == tasks[worker[id].task].commands IN
    { commands[k] : k \in 1..Len(commands) }

\* The distance between two values of a coordinate.
dist(a, b) == IF a >= b THEN a - b ELSE b - a

\* C27: under SpecTokens, a robot that executes a rune of its program that
\* is none of N, E, S, W, G, D fails with the unknown-command error and
\* stays where it is; and a command that a plain robot executes without
\* error changes at most one of its coordinates, by exactly 1.
C27_UnknownRunesRefused ==
    [][ \A id \in DOMAIN robots :
           executes(id) =>
              /\ (currentCmd(id) \in programRunes(id) \ alphabet) =>
                    /\ worker'[id].err = ErrUnknownCommand
                    /\ robots'[id].state = robots[id].state
              /\ (~robots[id].isDiagonal /\ worker'[id].err = Nil) =>
                    dist(robots'[id].state.X, robots[id].state.X)
                      + dist(robots'[id].state.Y, robots[id].state.Y) <= 1
      ]_vars

(***************************************************************************)
(* Two robots walking                                                      *)
(***************************************************************************)

\* The command strings of Example_mutiple for the robot at (0, 0), and a
\* round trip for a second robot whose way crosses the way of the first.
WalkPrograms ==
    { <<"N", " ", "N", " ", "E", " ", "E", " ", "N", " ", "E", " ", "S">>,
      <<"N", " ", "N", " ">> }

RoundTrip == <<"N", "E", "S", "W">>

submitted(commands) == \E t \in DOMAIN tasks : tasks[t].commands = commands

\* The first robot is admitted at (0, 0), the second at (1, 1); every
\* command string is submitted once.
NextWalk ==
    \/ DOMAIN robots = {} /\ AddRobot(0, 0) /\ UNCHANGED obs
    \/ DOMAIN robots = {1} /\ AddRobot(1, 1) /\ UNCHANGED obs
    \/ \E p \in WalkPrograms :
          /\ ~submitted(p)
          /\ EnqueueTask(1, p)
          /\ UNCHANGED obs
    \/ ~submitted(RoundTrip) /\ EnqueueTask(2, RoundTrip) /\ UNCHANGED obs
    \/ \E id \in 1..MaxRobots : Dequeue(id) /\ UNCHANGED obs
    \/ \E id \in 1..MaxRobots : LoopHead(id) /\ UNCHANGED obs
    \/ \E id \in 1..MaxRobots : Execute(id) /\ UNCHANGED obs
    \/ \E id \in 1..MaxRobots : Publish(id) /\ UNCHANGED obs
    \/ \E id \in 1..MaxRobots : CloseErrorCh(id) /\ UNCHANGED obs
    \/ \E id \in 1..MaxRobots : ClosePositionCh(id) /\ UNCHANGED obs
    \/ \E id \in 1..MaxRobots : Cleanup(id) /\ UNCHANGED obs

SpecWalk == Init /\ [][NextWalk]_vars

\* The sum of the displacements of the commands.
RECURSIVE displacement(_)
displacement(commands) ==
    IF commands = <<>> THEN [X |-> 0, Y |-> 0]
    ELSE LET rest == displacement(Tail(commands)) IN
         [X |-> dx(Head(commands)) + rest.X, Y |-> dy(Head(commands)) + rest.Y]

\* C29: under SpecWalk, when a task ends and every command of it has
\* succeeded, the robot stands at the position it had when the task began
\* plus the sum of the displacements of the commands, whatever the other
\* robot did meanwhile.
C29_FinalPosition ==
    \A id \in DOMAIN robots :
       (worker[id].pc \in closing /\ worker[id].err = Nil) =>
          LET w == worker[id]
              d == displacement(parseCommands(tasks[w.task].commands))
          IN  /\ robots[id].state.X = w.start.X + d.X
              /\ robots[id].state.Y = w.start.Y + d.Y
              /\ gridyx[robots[id].state.Y][robots[id].state.X] = id

\* C29 witness: the first robot has walked "N N E E N E S" from (0, 0) and is
\* ending the follow-up "N N" at (3, 4), begun at (3, 2); the second robot
\* is ending its round trip where it began.
C29_Witness ==
    /\ DOMAIN robots = {1, 2}
    /\ worker[1].pc \in closing /\ worker[1].err = Nil
    /\ worker[1].commands = <<"N", "N">>
    /\ worker[1].start = [X |-> 3, Y |-> 2, HasCrate |-> FALSE]
    /\ robots[1].state = [X |-> 3, Y |-> 4, HasCrate |-> FALSE]
    /\ worker[2].pc \in closing /\ worker[2].err = Nil
    /\ worker[2].commands = RoundTrip
    /\ robots[2].state = worker[2].start

(***************************************************************************)
(* The renderer                                                            *)
(***************************************************************************)

\* The first two characters of the user-visible id of a robot.
label(id) == <<"R", id>>

\* The robot on a cell of the grid, Empty when there is none.
robotAt(grid, x, y) == grid[y][x]

\* A glyph that looks at the crate of the cell before it looks at what the
\* robot carries.
glyph_crateFirst(grid, crates, rs, x, y) ==
    LET id == robotAt(grid, x, y) IN
    IF id = Empty
    THEN IF <<y, x>> \in crates THEN <<"[", "C", "]">> ELSE <<" ", "-", " ">>
    ELSE IF <<y, x>> \in crates THEN label(id) \o <<"_">>
    ELSE IF rs[id].state.HasCrate THEN label(id) \o <<"*">>
    ELSE label(id) \o <<"~">>

\* The three characters Render prints for the cell (x, y) of a snapshot.
glyph(grid, crates, rs, x, y) ==
    LET id == robotAt(grid, x, y) IN
    IF id = Empty
    THEN IF <<y, x>> \in crates THEN <<"[", "C", "]">> ELSE <<" ", "-", " ">>
    ELSE IF rs[id].state.HasCrate THEN label(id) \o <<"*">>
    ELSE IF <<y, x>> \in crates THEN label(id) \o <<"_">>
    ELSE label(id) \o <<"~">>

\* Render reads one snapshot under the read lock and prints every cell of
\* the grid.
render ==
    [y \in 0..(GridSize - 1) |->
       [x \in 0..(GridSize - 1) |-> glyph(gridyx, cratesyx, robots, x, y)]]

Render ==
    /\ wmu = Empty
    /\ obs' = [obs EXCEPT !.ret = returned("Render", <<>>, Nil, render)]
    /\ UNCHANGED progVars

\* The runs of SpecCrate in a crate warehouse, and a view of them.
NextRender ==
    \/ \E c \in CrateCells :
          /\ Cardinality(DOMAIN robots) < MaxCrateRobots
          /\ AddCrateRobot(c[1], c[2])
          /\ UNCHANGED obs
    \/ \E c \in CrateCells : AddCrate(c[1], c[2]) /\ UNCHANGED obs
    \/ \E c \in CrateCells : DelCrate(c[1], c[2]) /\ UNCHANGED obs
    \/ \E p \in CratePrograms :
          /\ Cardinality(DOMAIN tasks) < MaxTasks
          /\ EnqueueTask(1, p)
          /\ UNCHANGED obs
    \/ Dequeue(1) /\ UNCHANGED obs
    \/ LoopHead(1) /\ UNCHANGED obs
    \/ Execute(1) /\ UNCHANGED obs
    \/ Publish(1) /\ UNCHANGED obs
    \/ CloseErrorCh(1) /\ UNCHANGED obs
    \/ ClosePositionCh(1) /\ UNCHANGED obs
    \/ Cleanup(1) /\ UNCHANGED obs
    \/ Render

SpecRender == Init /\ [][NextRender]_vars

\* The robot that stands on the cell (x, y), if any.
standsOn(x, y) ==
    { id \in DOMAIN robots : robots[id].state.X = x /\ robots[id].state.Y = y }

\* C30: under SpecRender, the glyph Render prints for a cell is ' - ' when
\* the cell has no robot and no crate, '[C]' when it has a crate and no
\* robot, the label of the robot and '*' when the robot carries a crate
\* (crate on the cell or not), the label and '_' when the robot carries none
\* and a crate lies on the cell, and the label and '~' otherwise.
C30_RenderGlyphs ==
    [][ returns("Render") =>
           \A y \in 0..(GridSize - 1), x \in 0..(GridSize - 1) :
              LET g     == obs'.ret.val[y][x]
                  crate == <<y, x>> \in cratesyx
              IN  /\ standsOn(x, y) = {} =>
                        g = IF crate THEN <<"[", "C", "]">> ELSE <<" ", "-", " ">>
                  /\ \A id \in standsOn(x, y) :
                        g = label(id) \o
                              ( IF robots[id].state.HasCrate THEN <<"*">>
                                ELSE IF crate THEN <<"_">>
                                ELSE <<"~">> )
      ]_vars

\* C30 witness: the last view shows a robot that carries a crate on a cell
\* where another crate lies, as its label and '*', and a crate without a
\* robot on the other cell.
C30_Witness ==
    /\ obs.ret.op = "Render"
    /\ \E c \in CrateCells, id \in DOMAIN robots :
          /\ cellOf(id) = c
          /\ robots[id].state.HasCrate
          /\ <<c[2], c[1]>> \in cratesyx
          /\ obs.ret.val[c[2]][c[1]] = label(id) \o <<"*">>
          /\ \E d \in CrateCells \ {c} :
                obs.ret.val[d[2]][d[1]] = <<"[", "C", "]">>

(***************************************************************************)
(* A command write by write, and the readers of the warehouse              *)
(***************************************************************************)

\* The state of the robot once a command that succeeds is written out:
\* HasCrate after grabCrate or dropCrate, newX and newY after a move.
pendingState(r, cmd) ==
    IF cmd = "G" THEN [r.state EXCEPT !.HasCrate = TRUE]
    ELSE IF cmd = "D" THEN [r.state EXCEPT !.HasCrate = FALSE]
    ELSE LET sw == commandSwitch(r, cmd, {}) IN
         [r.state EXCEPT !.X = sw.newX, !.Y = sw.newY]

\* executeCommand returns an error.
ExecuteFail(id) ==
    /\ Execute(id)
    /\ worker'[id].err # Nil

\* executeCommand succeeds.  Its first writes go to the arrays of the
\* warehouse: the crate flag (grabCrate, dropCrate) or the two cells of
\* gridyx.  The worker holds the warehouse lock and the robot lock.
ExecuteWriteWarehouse(id) ==
    /\ id \in DOMAIN robots
    /\ worker[id].pc = "exec"
    /\ wmu \in {Empty, id}
    /\ ~muLocked(robots[id])
    /\ LET w == worker[id]
           res == executeCommand(robots[id], w.commands[w.i], gridyx, cratesyx)
       IN  /\ res.err = Nil
           /\ gridyx' = res.grid
           /\ cratesyx' = res.crates
           /\ worker' = [worker EXCEPT ![id].pc = "state"]
    /\ wmu' = id
    /\ UNCHANGED <<robots, tasks>>

\* Its last writes go to r.state; the deferred unlocks follow.
ExecuteWriteState(id) ==
    /\ id \in DOMAIN robots
    /\ worker[id].pc = "state"
    /\ wmu = id
    /\ robots' = [robots EXCEPT ![id].state =
          pendingState(robots[id], worker[id].commands[worker[id].i])]
    /\ worker' = [worker EXCEPT ![id].pc = "publish", ![id].err = Nil]
    /\ tasks' = [tasks EXCEPT ![worker[id].task].executed = @ + 1]
    /\ wmu' = Empty
    /\ UNCHANGED <<gridyx, cratesyx>>

\* snapshot: the grid, the crates and the state of every robot, read
\* under the read lock of the warehouse.
snapshot ==
    [grid |-> gridyx, crates |-> cratesyx,
     robots |-> [id \in DOMAIN robots |-> robots[id].state]]

\* A reader that does not take the lock.
Snapshot_noLock ==
    /\ obs' = [obs EXCEPT !.ret = returned("Snapshot", <<>>, Nil, snapshot)]
    /\ UNCHANGED progVars

Snapshot ==
    /\ wmu = Empty
    /\ obs' = [obs EXCEPT !.ret = returned("Snapshot", <<>>, Nil, snapshot)]
    /\ UNCHANGED progVars

\* The command strings submitted in a run of SpecSnapshot.
SnapshotPrograms == { <<"N", "E">>, <<"G", "S">>, <<"D">> }

\* One robot of a crate warehouse whose commands are written out in two
\* steps, crates added meanwhile, and a reader.
NextSnapshot ==
    \/ \E c \in CrateCells :
          /\ Cardinality(DOMAIN robots) < MaxCrateRobots
          /\ AddCrateRobot(c[1], c[2])
          /\ UNCHANGED obs
    \/ \E c \in CrateCells : AddCrate(c[1], c[2]) /\ UNCHANGED obs
    \/ \E p \in SnapshotPrograms :
          /\ Cardinality(DOMAIN tasks) < MaxTasks
          /\ EnqueueTask(1, p)
          /\ UNCHANGED obs
    \/ Dequeue(1) /\ UNCHANGED obs
    \/ LoopHead(1) /\ UNCHANGED obs
    \/ ExecuteFail(1) /\ UNCHANGED obs
    \/ ExecuteWriteWarehouse(1) /\ UNCHANGED obs
    \/ ExecuteWriteState(1) /\ UNCHANGED obs
    \/ Publish(1) /\ UNCHANGED obs
    \/ CloseErrorCh(1) /\ UNCHANGED obs
    \/ ClosePositionCh(1) /\ UNCHANGED obs
    \/ Cleanup(1) /\ UNCHANGED obs
    \/ Snapshot

SpecSnapshot == Init /\ [][NextSnapshot]_vars

\* A worker is between the first and the last write of a command.
midCommand == \E id \in DOMAIN robots : worker[id].pc = "state"

\* C31: under SpecSnapshot, a snapshot is never taken between the writes of
\* a command, and what it shows is consistent: every robot is on exactly the
\* one cell of the grid its state names.
C31_SnapshotBetweenCommands ==
    [][ returns("Snapshot") =>
           LET s == obs'.ret.val IN
           /\ ~midCommand
           /\ s = snapshot
           /\ \A id \in DOMAIN s.robots :
                 cellsOf(s.grid, id) = {<<s.robots[id].X, s.robots[id].Y>>}
      ]_vars

\* C31 witness: a snapshot was taken, and now the worker is between the
\* writes of a move: the grid has the robot on its new cell, its state still
\* names the old one, and the snapshot shows the state before the command.
C31_Witness ==
    /\ obs.ret.op = "Snapshot"
    /\ midCommand
    /\ \E id \in DOMAIN robots :
          /\ worker[id].pc = "state"
          /\ currentCmd(id) = "E"
          /\ cellsOf(gridyx, id) # {cellOf(id)}
          /\ cellsOf(obs.ret.val.grid, id) = {cellOf(id)}
          /\ obs.ret.val.robots[id] = robots[id].state

(***************************************************************************)
(* Commands that fail                                                      *)
(***************************************************************************)

\* The cells <<x, y>> where robots are admitted in a run of SpecErrors, the
\* upper edge included, and the command strings submitted: each has a
\* command that fails on some of these cells.
ErrorCells == { <<0, 0>>, <<1, 0>>, <<1, 1>>, <<GridSize, 0>> }

ErrorPrograms ==
    { <<"G", "E">>, <<"G", "D", "D">>, <<"N", "E", "X">>, <<"S", "W">>, <<"W", "G", "G">> }

\* Two robots, of a plain warehouse (plain or diagonal) or of a crate
\* warehouse, and their tasks.
NextErrors ==
    \/ \E c \in ErrorCells :
          /\ ~crateWarehouse
          /\ AddRobot(c[1], c[2])
          /\ UNCHANGED obs
    \/ \E c \in ErrorCells :
          /\ ~crateWarehouse
          /\ AddDiagonalRobot(c[1], c[2])
          /\ UNCHANGED obs
    \/ \E c \in ErrorCells :
          /\ Cardinality(DOMAIN robots) < MaxRobots
          /\ AddCrateRobot(c[1], c[2])
          /\ UNCHANGED obs
    \/ \E c \in CrateCells : AddCrate(c[1], c[2]) /\ UNCHANGED obs
    \/ \E id \in 1..MaxRobots, p \in ErrorPrograms :
          /\ Cardinality(DOMAIN tasks) < MaxTasks
          /\ EnqueueTask(id, p)
          /\ UNCHANGED obs
    \/ \E id \in 1..MaxRobots : Dequeue(id) /\ UNCHANGED obs
    \/ \E id \in 1..MaxRobots : LoopHead(id) /\ UNCHANGED obs
    \/ \E id \in 1..MaxRobots : Execute(id) /\ UNCHANGED obs
    \/ \E id \in 1..MaxRobots : Publish(id) /\ UNCHANGED obs
    \/ \E id \in 1..MaxRobots : CloseErrorCh(id) /\ UNCHANGED obs
    \/ \E id \in 1..MaxRobots : ClosePositionCh(id) /\ UNCHANGED obs
    \/ \E id \in 1..MaxRobots : Cleanup(id) /\ UNCHANGED obs

SpecErrors == Init /\ [][NextErrors]_vars

producerBlocked(id) == id \in DOMAIN robots /\ muLocked(robots[id])

\* C33: a producer blocked on a full task queue waits only until the worker
\* takes a task: under fair scheduling its send goes through, the worker
\* still finishing its task and draining the queue.
C33_BlockedSendCompletes ==
    producerBlocked(1) ~> ~producerBlocked(1)

\* The tasks submitted to robot id.
tasksOf(id) == { t \in DOMAIN tasks : tasks[t].robot = id }

\* Two robots in one warehouse: the first is given up to MaxQueueTasks
\* tasks, more than its queue and its worker hold together, the second one
\* task.
NextShared ==
    \/ AddRobot(0, 0) /\ UNCHANGED obs
    \/ AddRobot(1, 1) /\ UNCHANGED obs
    \/ \E p \in QueuePrograms :
          /\ Cardinality(tasksOf(1)) < MaxQueueTasks
          /\ EnqueueTask(1, p)
          /\ UNCHANGED obs
    \/ /\ tasksOf(2) = {}
       /\ EnqueueTask(2, <<"W", "S">>)
       /\ UNCHANGED obs
    \/ QuietEnqueueSend(1)
    \/ LockWarehouse(1) /\ UNCHANGED obs
    \/ \E id \in 1..MaxRobots : Dequeue(id) /\ UNCHANGED obs
    \/ \E id \in 1..MaxRobots : LoopHead(id) /\ UNCHANGED obs
    \/ \E id \in 1..MaxRobots : Execute(id) /\ UNCHANGED obs
    \/ \E id \in 1..MaxRobots : Publish(id) /\ UNCHANGED obs
    \/ \E id \in 1..MaxRobots : CloseErrorCh(id) /\ UNCHANGED obs
    \/ \E id \in 1..MaxRobots : ClosePositionCh(id) /\ UNCHANGED obs
    \/ \E id \in 1..MaxRobots : Cleanup(id) /\ UNCHANGED obs

SpecShared == Init /\ [][NextShared]_vars

\* SpecShared under fair scheduling: each worker goroutine keeps taking the
\* steps it can take, and a blocked send proceeds once the queue has room.
FairSpecShared ==
    /\ SpecShared
    /\ WF_vars(QuietWorkerStep(1))
    /\ WF_vars(QuietWorkerStep(2))
    /\ WF_vars(QuietEnqueueSend(1))

\* C34: robots make progress independently: whatever a producer or the
\* worker of the first robot waits for, a command the second robot's worker
\* is about to execute is eventually executed.
C34_OtherRobotExecutes ==
    (2 \in DOMAIN robots /\ worker[2].pc = "exec") ~> (2 \in DOMAIN robots /\ worker[2].pc # "exec")

\* CancelTask succeeded for task t when no cancel check of the task was left
\* for the worker to make: the check of the last command was passed, or the
\* task has no command.
lateCancel(t) ==
    LET c == obs.cancelAt[t]
        n == Len(parseCommands(tasks[t].commands))
    IN  \/ c.pc \in closing
        \/ c.pc = "exec" /\ c.executed + 1 = n
        \/ c.pc \in {"queued", "loop", "publish"} /\ c.executed = n

Stop(id) ==
    /\ id \in DOMAIN robots
    /\ ~robots[id].stopWorker
    /\ robots' = [robots EXCEPT ![id].stopWorker = TRUE]
    /\ UNCHANGED <<gridyx, cratesyx, worker, tasks, wmu>>

\* The select of startWorker receives from the closed stopWorker and the
\* worker returns.  A task ready in the queue does not keep the select from
\* taking this case, nor the stop signal from taking the task: Dequeue stays
\* enabled.
WorkerStop(id) ==
    /\ id \in DOMAIN robots
    /\ worker[id].pc = "idle"
    /\ robots[id].stopWorker
    /\ worker' = [worker EXCEPT ![id].pc = "stopped"]
    /\ UNCHANGED <<gridyx, cratesyx, robots, tasks, wmu>>

\* One robot at the origin, its tasks, and its stop signal.
NextStop ==
    \/ AddRobot(0, 0) /\ UNCHANGED obs
    \/ \E p \in Programs :
          /\ Cardinality(DOMAIN tasks) < MaxTasks
          /\ EnqueueTask(1, p)
          /\ UNCHANGED obs
    \/ Stop(1) /\ UNCHANGED obs
    \/ WorkerStop(1) /\ UNCHANGED obs
    \/ Dequeue(1) /\ UNCHANGED obs
    \/ LoopHead(1) /\ UNCHANGED obs
    \/ Execute(1) /\ UNCHANGED obs
    \/ Publish(1) /\ UNCHANGED obs
    \/ CloseErrorCh(1) /\ UNCHANGED obs
    \/ ClosePositionCh(1) /\ UNCHANGED obs
    \/ Cleanup(1) /\ UNCHANGED obs
    \/ \E t \in 1..MaxTasks : RecvError(t) /\ UNCHANGED obs

SpecStop == Init /\ [][NextStop]_vars

C37_Frame ==
    [][ \A id \in DOMAIN robots :
          /\ ~executes(id) => robots'[id].state = robots[id].state
          /\ executes(id) =>
                LET cmd == currentCmd(id)
                    old == <<robots[id].state.Y, robots[id].state.X>>
                    new == <<robots'[id].state.Y, robots'[id].state.X>>
                IN  /\ \A y, x \in Index :
                          <<y, x>> \notin {old, new} => gridyx'[y][x] = gridyx[y][x]
                    /\ (cratesyx' \ cratesyx) \cup (cratesyx \ cratesyx') \subseteq {old}
                    /\ cmd \in moveCmds =>
                          /\ cratesyx' = cratesyx
                          /\ robots'[id].state.HasCrate = robots[id].state.HasCrate
                    /\ cmd \in {"G", "D"} =>
                          /\ new = old
                          /\ gridyx' = gridyx
                          /\ worker'[id].err # ErrPositionOccupied
      ]_vars

\* C37 witness: with two robots on the row y = 0, one has put down at (1,0)
\* the crate it grabbed at (0,0) and carried east, the other robot has not
\* moved from (2,0), and a crate has been added at (0,0) meanwhile.
C37_Witness ==
    \E a, b \in DOMAIN robots :
        /\ a # b
        /\ worker[a].pc = "publish"
        /\ worker[a].commands = <<"G", "E", "D", "W">>
        /\ currentCmd(a) = "D"
        /\ cellOf(a) = <<1, 0>>
        /\ ~robots[a].state.HasCrate
        /\ cellOf(b) = <<2, 0>>
        /\ cratesyx = {<<0, 0>>, <<0, 1>>}

\* The commands of the crate robot and the moves of the plain one.
crateAlphabet == {"N", "E", "S", "W", "G", "D"}

\* The diagonal commands of a sequence, by position.
diagonals(commands) ==
    { k \in 1..Len(commands) :
        commands[k] \in {MoveNorthEast, MoveNorthWest, MoveSouthEast, MoveSouthWest} }

\* The G and D commands of a sequence in their order, each with the
\* displacement of the commands before it.
crateTrace(commands) ==
    LET marks == [k \in 1..Len(commands) |->
                    <<commands[k], displacement(SubSeq(commands, 1, k))>>]
    IN  SelectSeq(marks, LAMBDA mk : mk[1] \in {"G", "D"})

\* C38: for every sequence over N, E, S, W, G, D the output of
\* processCommands has the net displacement of its input, the same G and D
\* commands in the same order and each at the same cumulative displacement,
\* and is shorter than the input by the number of diagonals in it.
C38_RewriterPreserves ==
    (/\ obs.ret.op = "processCommands"
     /\ \A k \in 1..Len(obs.ret.args) : obs.ret.args[k] \in crateAlphabet)
        => /\ displacement(obs.ret.val) = displacement(obs.ret.args)
           /\ crateTrace(obs.ret.val) = crateTrace(obs.ret.args)
           /\ Len(obs.ret.val) =
                 Len(obs.ret.args) - Cardinality(diagonals(obs.ret.val))

\* C38 witness: "NGEN" has been rewritten to N, G and one north-east move.
C38_Witness ==
    /\ obs.ret.op = "processCommands"
    /\ obs.ret.args = <<"N", "G", "E", "N">>
    /\ obs.ret.val = <<"N", "G", MoveNorthEast>>

\* The command loop of executeTask with nobody cancelling: the commands are
\* executed in order up to the first error.
RECURSIVE runTask(_, _, _, _)
runTask(r, commands, grid, crates) ==
    IF commands = <<>>
    THEN [err |-> Nil, state |-> r.state, grid |-> grid, crates |-> crates]
    ELSE LET res == executeCommand(r, Head(commands), grid, crates) IN
         IF res.err # Nil THEN res
         ELSE runTask([r EXCEPT !.state = res.state], Tail(commands),
                      res.grid, res.crates)

\* executeTask of a robot that is alone in its warehouse at cell c, plain or
\* diagonal, on a command string: the error it ends with, the robot's state
\* and the crate map.
executeTaskAlone(c, canPickCrates, diagonal, crates, program) ==
    LET r == newRobot(1, c[1], c[2], diagonal, canPickCrates)
        grid == [[y \in Index |-> [x \in Index |-> Empty]] EXCEPT ![c[2]][c[1]] = 1]
        parsed == parseCommands(program)
        commands == IF diagonal THEN processCommands(parsed) ELSE parsed
        res == runTask(r, commands, grid, crates)
    IN  [err |-> res.err, state |-> res.state, crates |-> res.crates]

\* The cells <<x, y>> a robot starts from: two corners of the grid and the
\* cell east of it on the array's last column, where AddRobot admits.
RefineCells == { <<0, 0>>, <<GridSize - 1, GridSize - 1>>, <<GridSize, 0>> }

\* The crate maps a run starts with.
RefineCrates ==
    SUBSET { <<c[2], c[1]>> : c \in CrateCells \cup {<<GridSize - 1, GridSize - 1>>} }

\* The programs run: every string of up to MaxProgramLen commands.
RefinePrograms == UNION { [1..n -> crateAlphabet] : n \in 0..MaxProgramLen }

\* A start is chosen: the cell, the warehouse kind, its crates, the program.
ChooseRun(c, canPickCrates, crates, program) ==
    /\ obs.ret.op = "none"
    /\ obs' = [obs EXCEPT !.ret =
          returned("EnqueueTask",
                   [cell |-> c, canPickCrates |-> canPickCrates,
                    crates |-> crates, commands |-> program], Nil, Empty)]
    /\ UNCHANGED progVars

\* The program is run from the start chosen by a plain robot and by a
\* diagonal one.
RunBoth ==
    /\ obs.ret.op = "EnqueueTask"
    /\ LET a == obs.ret.args IN
       obs' = [obs EXCEPT !.ret =
          returned("executeTask", a, Nil,
             [plain |-> executeTaskAlone(a.cell, a.canPickCrates, FALSE,
                                         a.crates, a.commands),
              diagonal |-> executeTaskAlone(a.cell, a.canPickCrates, TRUE,
                                            a.crates, a.commands)])]
    /\ UNCHANGED progVars

NextRefine ==
    \/ /\ obs.ret.op = "none"
       /\ \E c \in RefineCells, p \in RefinePrograms : ChooseRun(c, FALSE, {}, p)
    \/ /\ obs.ret.op = "none"
       /\ \E c \in RefineCells, crates \in RefineCrates, p \in RefinePrograms :
             ChooseRun(c, TRUE, crates, p)
    \/ RunBoth

SpecRefine == Init /\ [][NextRefine]_vars

\* Both runs ended without error, in the same robot state and crate map.
sameOutcome(v) ==
    /\ v.plain.err = Nil
    /\ v.diagonal.err = Nil
    /\ v.diagonal.state = v.plain.state
    /\ v.diagonal.crates = v.plain.crates

ExecuteWriteX(id) ==
    /\ id \in DOMAIN robots
    /\ worker[id].pc = "state"
    /\ wmu = id
    /\ robots' = [robots EXCEPT ![id].state.X =
          pendingState(robots[id], worker[id].commands[worker[id].i]).X]
    /\ worker' = [worker EXCEPT ![id].pc = "stateY"]
    /\ UNCHANGED <<gridyx, cratesyx, tasks, wmu>>

\* Then r.state.Y; the deferred unlocks follow.
ExecuteWriteY(id) ==
    /\ id \in DOMAIN robots
    /\ worker[id].pc = "stateY"
    /\ wmu = id
    /\ robots' = [robots EXCEPT ![id].state.Y =
          pendingState(robots[id], worker[id].commands[worker[id].i]).Y]
    /\ worker' = [worker EXCEPT ![id].pc = "publish", ![id].err = Nil]
    /\ tasks' = [tasks EXCEPT ![worker[id].task].executed = @ + 1]
    /\ wmu' = Empty
    /\ UNCHANGED <<gridyx, cratesyx>>

\* The worker of robot id holds the robot's mutex: it is between the writes
\* of executeCommand.
workerHoldsMu(id) == worker[id].pc \in {"state", "stateY"}

\* A CurrentState that reads r.state without taking the mutex.
CallCurrentState_noLock(id) ==
    /\ id \in DOMAIN robots
    /\ obs' = [obs EXCEPT !.ret =
          returned("CurrentState", <<id>>, Nil, robots[id].state)]
    /\ UNCHANGED progVars

\* CurrentState as its caller sees it: the copy of r.state made with the
\* robot's mutex held.
CallCurrentState(id) ==
    /\ id \in DOMAIN robots
    /\ ~muLocked(robots[id])
    /\ ~workerHoldsMu(id)
    /\ obs' = [obs EXCEPT !.ret =
          returned("CurrentState", <<id>>, Nil, robots[id].state)]
    /\ UNCHANGED progVars

\* The command strings of a run of SpecState: diagonal moves inside the
\* grid, and one that leaves it.
StatePrograms == { <<"N", "E", "S">>, <<"E", "N", "N", "W">>, <<"S", "W">> }

\* One diagonal robot at the origin, one task, the writes of executeCommand
\* one at a time, and a caller of CurrentState.
NextState ==
    \/ AddDiagonalRobot(0, 0) /\ UNCHANGED obs
    \/ \E p \in StatePrograms :
          /\ DOMAIN tasks = {}
          /\ EnqueueTask(1, p)
          /\ UNCHANGED obs
    \/ Dequeue(1) /\ UNCHANGED obs
    \/ LoopHead(1) /\ UNCHANGED obs
    \/ ExecuteFail(1) /\ UNCHANGED obs
    \/ ExecuteWriteWarehouse(1) /\ UNCHANGED obs
    \/ ExecuteWriteX(1) /\ UNCHANGED obs
    \/ ExecuteWriteY(1) /\ UNCHANGED obs
    \/ Publish(1) /\ UNCHANGED obs
    \/ CloseErrorCh(1) /\ UNCHANGED obs
    \/ ClosePositionCh(1) /\ UNCHANGED obs
    \/ Cleanup(1) /\ UNCHANGED obs
    \/ CallCurrentState(1)

SpecState == Init /\ [][NextState]_vars

\* The states robot id holds between the commands of the task its worker
\* has: where each prefix of the commands leads from the task's start.
betweenCommands(id) ==
    LET w == worker[id] IN
    { walk(w.start, SubSeq(w.commands, 1, k)) : k \in 0..Len(w.commands) }

\* C40: what CurrentState returns while the worker executes a task is a
\* state the robot holds between two commands of the task, never one with
\* the x of one command and the y of another.
C40_CurrentStateNotTorn ==
    obs.ret.op = "CurrentState" =>
        LET id == obs.ret.args[1] IN
        worker[id].task # Empty => obs.ret.val \in betweenCommands(id)

\* C40 witness: CurrentState was called after the north-east move of "NES"
\* and returned (1,1); the worker is now between the writes of the next
\* command, with y written and x of it the same.
C40_Witness ==
    /\ obs.ret.op = "CurrentState"
    /\ obs.ret.val = [X |-> 1, Y |-> 1, HasCrate |-> FALSE]
    /\ worker[1].commands = <<MoveNorthEast, "S">>
    /\ workerHoldsMu(1)

====
